---- MODULE Spec2Model ----
(***************************************************************************)
(* Canonical codecs of the Dilithium (mode3) implementation:               *)
(*   sign/dilithium/internal/common/pack.go   (T0, T1, B60 codecs)         *)
(*   sign/dilithium/mode3/internal/pack.go    (LeqEta, Hint, LeGamma1)     *)
(*                                                                         *)
(* A Poly is a function 0..N-1 -> coefficient, a VecK a function           *)
(* 0..K-1 -> Poly and a byte slice a function 0..len-1 -> 0..255, so that  *)
(* every index expression of the Go code is kept as written.               *)
(*                                                                         *)
(* Machine integers.  TLC's integers are 32-bit signed.  A Go uint32 is    *)
(* carried as its two's-complement representative int32(x); every          *)
(* coefficient the model feeds to a codec is below 2^24, so no sum or      *)
(* difference computed here leaves the int32 range and wrap-around of a    *)
(* subtraction shows as a negative representative, exactly what the code's *)
(* int32(x)>>31 tests.  byte(x>>k) of such a value is (x \div 2^k) % 256   *)
(* for k <= 24 whichever representative is used (\div is floor division).  *)
(* A Go uint64 is carried as the 8 bytes it was read from.                 *)
(***************************************************************************)
EXTENDS Integers, Sequences, FiniteSets, TLC

VARIABLES
  p,     \* the Poly operated on (receiver / argument p of the codecs)
  v,     \* the VecK operated on (receiver of PackHint / UnpackHint)
  buf,   \* the caller-supplied byte slice
  ret,   \* value returned by the most recent UnpackHint / UnpackB60
  last,  \* name of the most recent call ("init" before any call)
  prev,  \* name of the call before that
  arg,         \* the scalar argument(s) of a field primitive
  accepted,    \* DeriveUniform: i, the number of coefficients written so far
  squeezed,    \* DeriveUniform: the number of blocks read from the hash so far
  writes,      \* DeriveUniform: how often each index of p was written
  server,      \* oprf: the Server, once created
  client,      \* oprf: the Client, once created
  request,     \* oprf: the ClientRequest returned by Request
  evaluation,  \* oprf: the Evaluation returned by Evaluate
  out,         \* oprf: the output returned by Finalize, with the info given
  call         \* oprf: the arguments and the result of the most recent server call

vars == <<p, v, buf, ret, last, prev, arg, accepted, squeezed, writes,
          server, client, request, evaluation, out, call>>

fieldVars == <<arg>>
samplerVars == <<accepted, squeezed, writes>>
oprfVars == <<server, client, request, evaluation, out, call>>

\* the state of the components other than the codecs, which no codec touches
nonCodecVars == <<fieldVars, samplerVars, oprfVars>>

\* a nil pointer, and a component that is not in use
Nil == [nil |-> TRUE]
FieldIdle == arg = 0
SamplerIdle == accepted = 0 /\ squeezed = 0 /\ writes = <<>>
OprfIdle ==
  /\ server = Nil
  /\ client = Nil
  /\ request = Nil
  /\ evaluation = Nil
  /\ out = Nil
  /\ call = Nil

NonCodecInit == FieldIdle /\ SamplerIdle /\ OprfIdle

----------------------------------------------------------------------------
(* Parameter set (mode3) *)

Q == 8380417
N == 256
D == 14
K == 5
Eta == 5
DoubleEtaBits == 4
Omega == 96
Gamma1 == 523776
PolyT1Size == (N * 9) \div 8
PolyT0Size == (N * D) \div 8
PolyLeqEtaSize == (N * DoubleEtaBits) \div 8
PolyLeGamma1Size == (N * 20) \div 8
PolyB60Size == 40

----------------------------------------------------------------------------
(* Machine arithmetic *)

Pow2(k) == 2 ^ k

\* byte(x): conversion of an integer to uint8
Byte(x) == x % 256

\* x >> k
Shr(x, k) == x \div Pow2(k)

\* x << k on a uint32 / uint64 operand that does not overflow
Shl(x, k) == x * Pow2(k)

\* b << k on a uint8 operand: the result is again a uint8
ShlByte(b, k) == (b * Pow2(k)) % 256

RECURSIVE BitOr(_, _)
\* a | b on non-negative operands
BitOr(a, b) ==
  IF a = 0 THEN b
  ELSE IF b = 0 THEN a
  ELSE (IF a % 2 = 1 \/ b % 2 = 1 THEN 1 ELSE 0) + 2 * BitOr(a \div 2, b \div 2)

RECURSIVE BitAnd(_, _)
\* a & b on non-negative operands
BitAnd(a, b) ==
  IF a = 0 \/ b = 0 THEN 0
  ELSE (IF a % 2 = 1 /\ b % 2 = 1 THEN 1 ELSE 0) + 2 * BitAnd(a \div 2, b \div 2)

RECURSIVE BitXor(_, _)
\* a ^ b on non-negative operands
BitXor(a, b) ==
  IF a = 0 THEN b
  ELSE IF b = 0 THEN a
  ELSE (IF a % 2 # b % 2 THEN 1 ELSE 0) + 2 * BitXor(a \div 2, b \div 2)

BufLen(b) == Cardinality(DOMAIN b)

ZeroPoly == [j \in 0..(N - 1) |-> 0]
ZeroVecK == [i \in 0..(K - 1) |-> ZeroPoly]
ZeroBuf(len) == [i \in 0..(len - 1) |-> 0]

\* contents left over from an earlier use
DirtyPoly == [j \in 0..(N - 1) |-> 7]
DirtyVecK == [i \in 0..(K - 1) |-> DirtyPoly]
DirtyBuf(len) == [i \in 0..(len - 1) |-> 255]

----------------------------------------------------------------------------
(* mode3/internal/pack.go: hint vector codec *)

RECURSIVE PackHintPoly(_, _, _, _, _, _)
\* iterations j = lo .. hi-1 of the inner loop of PackHint for polynomial i,
\* run in order (the range is split in two to keep the evaluation shallow; a
\* range without non-zero coefficient writes nothing); off is a uint8
PackHintPoly(vv, b, off, i, lo, hi) ==
  IF \A j \in lo..(hi - 1) : vv[i][j] = 0 THEN [buf |-> b, off |-> off]
  ELSE IF hi = lo + 1
    THEN [buf |-> [b EXCEPT ![off] = Byte(lo)], off |-> (off + 1) % 256]
    ELSE LET mid == (lo + hi) \div 2
             r == PackHintPoly(vv, b, off, i, lo, mid)
         IN \* the test is always true: it makes TLC evaluate r here
            IF r.off >= 0 THEN PackHintPoly(vv, r.buf, r.off, i, mid, hi) ELSE r

RECURSIVE PackHintVec(_, _, _, _)
\* outer loop of PackHint from polynomial i on
PackHintVec(vv, b, off, i) ==
  IF i >= K THEN [buf |-> b, off |-> off]
  ELSE LET r == PackHintPoly(vv, b, off, i, 0, N)
       IN \* the test is always true: it makes TLC evaluate r here
          IF r.off >= 0
          THEN PackHintVec(vv, [r.buf EXCEPT ![Omega + i] = r.off], r.off, i + 1)
          ELSE r

\* PackHint without its padding loop
PackHintPad_NoPadding(b, off) == b

\* padding loop of PackHint: buf[off], ..., buf[Omega-1] are set to 0
PackHintPad(b, off) ==
  [j \in DOMAIN b |-> IF off <= j /\ j < Omega THEN 0 ELSE b[j]]

\* (v *VecK) PackHint(buf): the contents of buf after the call
VecK_PackHint(vv, b) ==
  LET r == PackHintVec(vv, b, 0, 0)
  IN PackHintPad(r.buf, r.off)

\* line 125 with < for <=: a repeated index passes
HintIndexOutOfOrder_Strict(b, prevSOP, j) == j > prevSOP /\ b[j] < b[j - 1]

\* the test of line 125
HintIndexOutOfOrder(b, prevSOP, j) == j > prevSOP /\ b[j] <= b[j - 1]

RECURSIVE UnpackHintIndices(_, _, _, _, _, _)
\* iterations j = lo .. hi-1 of the loop of lines 124-129 for polynomial i,
\* run in order; ok = FALSE once line 126 has returned, and the iterations
\* after it do not run
UnpackHintIndices(vv, b, i, prevSOP, lo, hi) ==
  IF hi <= lo THEN [ok |-> TRUE, v |-> vv]
  ELSE IF hi = lo + 1
    THEN IF HintIndexOutOfOrder(b, prevSOP, lo)
         THEN [ok |-> FALSE, v |-> vv]
         ELSE [ok |-> TRUE, v |-> [vv EXCEPT ![i][b[lo]] = 1]]
    ELSE LET mid == (lo + hi) \div 2
             r == UnpackHintIndices(vv, b, i, prevSOP, lo, mid)
         IN IF ~r.ok THEN r
            ELSE UnpackHintIndices(r.v, b, i, prevSOP, mid, hi)

\* line 121 without the comparison with Omega
HintBadSOP_NoOmega(SOP, prevSOP) == SOP < prevSOP

\* the test of line 121
HintBadSOP(SOP, prevSOP) == SOP < prevSOP \/ SOP > Omega

RECURSIVE UnpackHintVec(_, _, _, _)
\* loop of lines 119-131 from polynomial i on
UnpackHintVec(vv, b, i, prevSOP) ==
  IF i >= K THEN [ok |-> TRUE, v |-> vv, prevSOP |-> prevSOP]
  ELSE LET SOP == b[Omega + i]
       IN IF HintBadSOP(SOP, prevSOP)
          THEN [ok |-> FALSE, v |-> vv, prevSOP |-> prevSOP]
          ELSE LET r == UnpackHintIndices(vv, b, i, prevSOP, prevSOP, SOP)
               IN IF ~r.ok THEN [ok |-> FALSE, v |-> r.v, prevSOP |-> prevSOP]
                  ELSE UnpackHintVec(r.v, b, i + 1, SOP)

\* loop of lines 132-136: TRUE iff every padding index is zero
UnpackHintPadOk(b, prevSOP) == \A j \in prevSOP..(Omega - 1) : b[j] = 0

\* line 117: *v = VecK{}
UnpackHintZero(vv) == [i \in DOMAIN vv |-> [j \in DOMAIN vv[i] |-> 0]]

\* (v *VecK) UnpackHint(buf), called with v holding vv: the returned bool and
\* the contents of v after the call
VecK_UnpackHint(vv, b) ==
  LET r == UnpackHintVec(UnpackHintZero(vv), b, 0, 0)
  IN [ret |-> r.ok /\ UnpackHintPadOk(b, r.prevSOP), v |-> r.v]

----------------------------------------------------------------------------
(* Calls of the hint codec on the shared state *)

\* number of non-zero coefficients of a Poly
PolyCountNonzero(pp) == Cardinality({j \in DOMAIN pp : pp[j] # 0})

RECURSIVE SumTo(_, _)
\* f[0] + ... + f[n-1]
SumTo(f, n) == IF n = 0 THEN 0 ELSE f[n - 1] + SumTo(f, n - 1)

\* number of non-zero coefficients of a VecK
CountNonzero(vv) == SumTo([i \in 0..(K - 1) |-> PolyCountNonzero(vv[i])], K)

\* v.PackHint(b0), for a v within the documented input range (at most Omega
\* non-zero coefficients; more of them index past the end of the slice).
\* The caller passes the slice it holds or a fresh one whose bytes are 0xFF.
PackHint ==
  /\ BufLen(buf) = Omega + K
  /\ CountNonzero(v) <= Omega
  /\ \E b0 \in {buf, DirtyBuf(Omega + K)} : buf' = VecK_PackHint(v, b0)
  /\ last' = "PackHint"
  /\ prev' = last
  /\ UNCHANGED <<p, v, ret>>
  /\ UNCHANGED nonCodecVars

\* ok := v0.UnpackHint(buf), into the VecK at hand or into one that holds
\* other data
UnpackHint ==
  /\ BufLen(buf) = Omega + K
  /\ \E v0 \in {v, DirtyVecK} :
       LET r == VecK_UnpackHint(v0, buf)
       IN /\ v' = r.v
          /\ ret' = r.ret
  /\ last' = "UnpackHint"
  /\ prev' = last
  /\ UNCHANGED <<p, buf>>
  /\ UNCHANGED nonCodecVars

----------------------------------------------------------------------------
(* Inputs of the hint codec *)

\* leading index bytes of an input buffer that are drawn freely
MaxEntries == 2

ByteVals == {0, 1, 255}
SopVals == {0, 1, MaxEntries, Omega, Omega + 1}

\* switch-over bytes: a up to polynomial k, b from polynomial k on
HintSops ==
  { [i \in 0..(K - 1) |-> IF i < k THEN a ELSE b] :
    a \in SopVals, b \in SopVals, k \in 0..(K - 1) }

\* input buffers: MaxEntries free index bytes, then either zeroes or the
\* ascending run j, j+1, ..., then the K switch-over bytes
HintBufs ==
  { [j \in 0..(Omega + K - 1) |->
       IF j >= Omega THEN s[j - Omega]
       ELSE IF j < MaxEntries THEN e[j]
       ELSE IF asc THEN j ELSE 0] :
    e \in [0..(MaxEntries - 1) -> ByteVals], s \in HintSops, asc \in BOOLEAN }

HintIdxSets ==
  { {}, {0}, {N - 1}, {0, 1, N - 1}, 0..(Omega - 1), 1..(Omega - 1) }

VecOfSets(f) == [i \in 0..(K - 1) |-> [j \in 0..(N - 1) |-> IF j \in f[i] THEN 1 ELSE 0]]

SetsTotal(f) == Cardinality({ij \in (0..(K - 1)) \X (0..(N - 1)) : ij[2] \in f[ij[1]]})

\* input hint vectors: coefficients in {0,1}, at most Omega of them 1, in at
\* most two of the K polynomials
HintVecs ==
  { VecOfSets(f) :
    f \in { g \in [0..(K - 1) -> HintIdxSets] :
            /\ SetsTotal(g) <= Omega
            /\ \E i1, i2 \in 0..(K - 1) : \A i \in 0..(K - 1) : g[i] # {} => i \in {i1, i2} } }


InitHint ==
  /\ NonCodecInit
  /\ p = ZeroPoly
  /\ ret = FALSE
  /\ last = "init"
  /\ prev = "init"
  /\ \/ v \in HintVecs /\ buf = ZeroBuf(Omega + K)
     \/ v = ZeroVecK /\ buf \in HintBufs

NextHint == PackHint \/ UnpackHint

SpecHint == InitHint /\ [][NextHint]_vars

----------------------------------------------------------------------------
(* Properties of the hint codec *)

\* C1: the hint encoding is canonical: whenever UnpackHint has accepted a
\* buffer, PackHint of the vector it produced (into the same slice or into a
\* fresh one) reproduces that buffer byte for byte.
C1_HintEncodingCanonical ==
  [][(last = "UnpackHint" /\ ret /\ last' = "PackHint") => buf' = buf]_vars

\* an accepted buffer that uses all Omega index bytes has been packed again
C1_Witness ==
  /\ last = "PackHint" /\ prev = "UnpackHint" /\ ret
  /\ buf[Omega + K - 1] = Omega
  /\ v[1][Omega - 1] = 1

HintSOP(b, i) == b[Omega + i]
HintPrevSOP(b, i) == IF i = 0 THEN 0 ELSE b[Omega + i - 1]

\* (a) some switch-over byte is smaller than the one before or above Omega
HintCondA(b) ==
  \E i \in 0..(K - 1) : HintSOP(b, i) < HintPrevSOP(b, i) \/ HintSOP(b, i) > Omega

\* (b) within one polynomial's index range an index is not strictly greater
\* than the index before it
HintCondB(b) ==
  \E i \in 0..(K - 1) : \E j \in 1..(Omega - 1) :
    HintPrevSOP(b, i) < j /\ j < HintSOP(b, i) /\ b[j] <= b[j - 1]

\* (c) an index byte at or after the last switch-over point is non-zero
HintCondC(b) ==
  \E j \in 0..(Omega - 1) : j >= HintSOP(b, K - 1) /\ b[j] # 0

\* C3: UnpackHint returns false for every buffer in which (a), (b) or (c)
\* occurs and true for every buffer in which none of them occurs.
C3_UnpackHintRejection ==
  last = "UnpackHint" =>
    (ret <=> ~(HintCondA(buf) \/ HintCondB(buf) \/ HintCondC(buf)))

\* a buffer rejected for its padding alone
C3_Witness ==
  /\ last = "UnpackHint" /\ ~ret
  /\ HintCondC(buf) /\ ~HintCondA(buf) /\ ~HintCondB(buf)

HintInRange(vv) ==
  /\ \A i \in 0..(K - 1) : \A j \in 0..(N - 1) : vv[i][j] \in {0, 1}
  /\ CountNonzero(vv) <= Omega

\* C6: for every v with coefficients in {0,1}, at most Omega of them 1,
\* PackHint followed by UnpackHint returns true and yields exactly v.
C6_HintRoundTrip ==
  [][(last = "PackHint" /\ HintInRange(v) /\ last' = "UnpackHint")
       => (ret' /\ v' = v)]_vars

\* a vector with exactly Omega ones, spread over two polynomials, has made
\* the round trip
C6_Witness ==
  /\ last = "UnpackHint" /\ prev = "PackHint" /\ ret
  /\ CountNonzero(v) = Omega
  /\ \E i \in 0..(K - 1) : PolyCountNonzero(v[i]) = 1

----------------------------------------------------------------------------
(* internal/common/pack.go: sparse +-1 (challenge) codec *)

\* bit k of the uint64 whose little-endian bytes are w[at], ..., w[at+7];
\* bits above 63 are zero
U64Bit(w, at, k) == IF k > 63 THEN 0 ELSE Shr(w[at + (k \div 8)], k % 8) % 2

\* signs |= mask, for mask = 1 << k (mask is 0 once it was shifted 64 times);
\* signs is carried as its 8 little-endian bytes
U64OrBit(w, k) ==
  IF k > 63 THEN w ELSE [w EXCEPT ![k \div 8] = BitOr(@, Pow2(k % 8))]

\* PackB60, body of the inner loop for coefficient idx = 8*i+j (with line 106
\* when j = 0); st = [buf, signs, k] where mask = 1 << k
PackB60Step(pp, st, idx) ==
  LET i == idx \div 8
      j == idx % 8
      b1 == IF j = 0 THEN [st.buf EXCEPT ![i] = 0] ELSE st.buf
  IN IF pp[idx] # 0
     THEN [buf |-> [b1 EXCEPT ![i] = BitOr(@, Pow2(j))],
           signs |-> IF pp[idx] = Q - 1 THEN U64OrBit(st.signs, st.k) ELSE st.signs,
           k |-> st.k + 1]
     ELSE [buf |-> b1, signs |-> st.signs, k |-> st.k]

RECURSIVE PackB60Loop(_, _, _, _)
\* the steps for coefficients lo .. hi-1, in order
PackB60Loop(pp, st, lo, hi) ==
  IF hi <= lo THEN st
  ELSE IF hi = lo + 1 THEN PackB60Step(pp, st, lo)
  ELSE LET mid == (lo + hi) \div 2
           r == PackB60Loop(pp, st, lo, mid)
       IN \* the test is always true: it makes TLC evaluate r here
          IF r.k >= 0 THEN PackB60Loop(pp, r, mid, hi) ELSE r

\* lines 117-119: buf[i+32] = uint8(signs >> (8*i))
PackB60Signs(b, signs) ==
  [x \in DOMAIN b |-> IF 32 <= x /\ x < 40 THEN signs[x - 32] ELSE b[x]]

\* (p *Poly) PackB60(buf): the contents of buf after the call
Poly_PackB60(pp, b) ==
  LET r == PackB60Loop(pp, [buf |-> b, signs |-> [x \in 0..7 |-> 0], k |-> 0], 0, N)
  IN PackB60Signs(r.buf, r.signs)

\* line 131 with signs >> 61
UnpackB60UnusedBits_Shr61(b) == Shr(b[39], 5) # 0

\* line 131: signs>>60 != 0, signs being the little-endian word of b[32..39]
UnpackB60UnusedBits(b) == Shr(b[39], 4) # 0

\* uint32(-(bit)) & x for bit in {0,1}: -(1) is all ones, -(0) is 0
NegMaskAnd(bit, x) == IF bit = 1 THEN x ELSE 0

\* line 140 taking the sign bit two positions further up
UnpackB60Coeff_WrongBit(b, n) ==
  BitXor(1, NegMaskAnd(U64Bit(b, 32, n + 2), BitOr(1, Q - 1)))

\* lines 138-140: the coefficient written when signs has been shifted n times
UnpackB60Coeff(b, n) ==
  BitXor(1, NegMaskAnd(U64Bit(b, 32, n), BitOr(1, Q - 1)))

\* the test of line 137 for coefficient idx = 8*i+j
UnpackB60MaskBit(b, idx) == Shr(b[idx \div 8], idx % 8) % 2 = 1

RECURSIVE UnpackB60Loop(_, _, _, _)
\* loop of lines 135-144 for coefficients lo .. hi-1, in order (a range
\* without mask bit changes nothing); st = [p, n], signs having been shifted
\* n times
UnpackB60Loop(b, st, lo, hi) ==
  IF \A idx \in lo..(hi - 1) : ~UnpackB60MaskBit(b, idx) THEN st
  ELSE IF hi = lo + 1
    THEN [p |-> [st.p EXCEPT ![lo] = UnpackB60Coeff(b, st.n)], n |-> st.n + 1]
    ELSE LET mid == (lo + hi) \div 2
             r == UnpackB60Loop(b, st, lo, mid)
         IN \* the test is always true: it makes TLC evaluate r here
            IF r.n >= 0 THEN UnpackB60Loop(b, r, mid, hi) ELSE r

\* line 126: *p = Poly{}
UnpackB60Zero(pp) == [j \in DOMAIN pp |-> 0]

\* (p *Poly) UnpackB60(buf), called with p holding pp: the returned bool and
\* the contents of p after the call
Poly_UnpackB60(pp, b) ==
  IF UnpackB60UnusedBits(b)
  THEN [ret |-> FALSE, p |-> UnpackB60Zero(pp)]
  ELSE [ret |-> TRUE, p |-> UnpackB60Loop(b, [p |-> UnpackB60Zero(pp), n |-> 0], 0, N).p]

\* p.PackB60(b0), into the slice at hand or a fresh one whose bytes are 0xFF
PackB60 ==
  /\ BufLen(buf) = PolyB60Size
  /\ \E b0 \in {buf, DirtyBuf(PolyB60Size)} : buf' = Poly_PackB60(p, b0)
  /\ last' = "PackB60"
  /\ prev' = last
  /\ UNCHANGED <<p, v, ret>>
  /\ UNCHANGED nonCodecVars

\* ok := p0.UnpackB60(buf), into the Poly at hand or one that holds other data
UnpackB60 ==
  /\ BufLen(buf) = PolyB60Size
  /\ \E p0 \in {p, DirtyPoly} :
       LET r == Poly_UnpackB60(p0, buf)
       IN /\ p' = r.p
          /\ ret' = r.ret
  /\ last' = "UnpackB60"
  /\ prev' = last
  /\ UNCHANGED <<v, buf>>
  /\ UNCHANGED nonCodecVars

----------------------------------------------------------------------------
(* Inputs of the sparse +-1 codec *)

\* period of the sign pattern of an input polynomial
SignTile == 3
\* period of the pattern of the low 7 sign bytes of an input buffer
SignBytesTile == 2

B60Starts == {0, 100, 196}
B60Strides == {1, 3}
B60Counts == {0, 59, 60, 61, 65, N}
B60SignBytes == {0, 165, 255}
B60TopBytes == {0, 15, 16, 128}

\* cnt coefficient positions start, start+stride, ... (mod N)
B60Positions(start, stride, cnt) ==
  {(start + stride * k) % N : k \in 0..(cnt - 1)}

\* input polynomials: 60 coefficients 1 or Q-1, the others 0
B60Polys ==
  { [j \in 0..(N - 1) |->
       IF j \notin B60Positions(start, stride, 60) THEN 0
       ELSE IF neg[j % SignTile] THEN Q - 1 ELSE 1] :
    start \in B60Starts, stride \in B60Strides, neg \in [0..(SignTile - 1) -> BOOLEAN] }

MaskByte(S, i) == SumTo([j \in 0..7 |-> IF 8 * i + j \in S THEN Pow2(j) ELSE 0], 8)

\* input buffers: the mask of cnt positions, 7 sign bytes of period
\* SignBytesTile and the top sign byte
B60Bufs ==
  { [x \in 0..(PolyB60Size - 1) |->
       IF x < 32 THEN MaskByte(B60Positions(start, stride, cnt), x)
       ELSE IF x < 39 THEN sb[(x - 32) % SignBytesTile]
       ELSE top] :
    start \in B60Starts, stride \in B60Strides, cnt \in B60Counts,
    sb \in [0..(SignBytesTile - 1) -> B60SignBytes], top \in B60TopBytes }

InitB60 ==
  /\ NonCodecInit
  /\ v = ZeroVecK
  /\ ret = FALSE
  /\ last = "init"
  /\ prev = "init"
  /\ \/ p \in B60Polys /\ buf = ZeroBuf(PolyB60Size)
     \/ p = ZeroPoly /\ buf \in B60Bufs

NextB60 == PackB60 \/ UnpackB60

SpecB60 == InitB60 /\ [][NextB60]_vars

\* the sparse codecs together
InitSparse == InitHint \/ InitB60

NextSparse == NextHint \/ NextB60

SpecSparse == InitSparse /\ [][NextSparse]_vars

----------------------------------------------------------------------------
(* Properties of the sparse +-1 codec *)

\* bit idx of the 32-byte mask
B60MaskBitSet(b, idx) == (b[idx \div 8] \div Pow2(idx % 8)) % 2 = 1

B60MaskCount(b) == Cardinality({idx \in 0..(N - 1) : B60MaskBitSet(b, idx)})

\* one of the top 4 bits of the little-endian sign field b[32..39] is set
B60TopSignBitSet(b) == \E k \in 60..63 : (b[32 + (k \div 8)] \div Pow2(k % 8)) % 2 = 1

\* C2: no two distinct 40-byte buffers that UnpackB60 accepts decode to the
\* same polynomial, whatever the number of bits set in the mask.
C2_B60NoAmbiguity ==
  (last = "UnpackB60" /\ ret) =>
    \A b2 \in B60Bufs :
      (b2 # buf /\ Poly_UnpackB60(ZeroPoly, b2).ret)
        => Poly_UnpackB60(ZeroPoly, b2).p # p

\* C4: UnpackB60 returns false whenever one of the top 4 bits of the sign
\* field is set, and true whenever the mask has exactly 60 bits set and the
\* top 4 sign bits are zero.
C4_UnpackB60Rejection ==
  last = "UnpackB60" =>
    /\ B60TopSignBitSet(buf) => ~ret
    /\ (B60MaskCount(buf) = 60 /\ ~B60TopSignBitSet(buf)) => ret

\* a buffer with a 60-bit mask rejected for bit 60 of the sign field alone
C4_Witness ==
  /\ last = "UnpackB60" /\ ~ret
  /\ buf[39] = 16 /\ B60MaskCount(buf) = 60

\* C5: a failing unpack leaves its output zeroed: v after UnpackHint returned
\* false, p after UnpackB60 returned false.
C5_FailedUnpackZeroed ==
  /\ (last = "UnpackHint" /\ ~ret) => v = ZeroVecK
  /\ (last = "UnpackB60" /\ ~ret) => p = ZeroPoly

B60InRange(pp) ==
  /\ PolyCountNonzero(pp) = 60
  /\ \A j \in 0..(N - 1) : pp[j] \in {0, 1, Q - 1}

\* number of non-zero coefficients below index j
B60Rank(pp, j) == Cardinality({x \in 0..(j - 1) : pp[x] # 0})

\* the k-th non-zero coefficient is Q-1 iff bit k of the sign field is set
B60SignsByRank(pp, b) ==
  \A j \in 0..(N - 1) :
    pp[j] # 0 =>
      (pp[j] = Q - 1 <=>
         (b[32 + (B60Rank(pp, j) \div 8)] \div Pow2(B60Rank(pp, j) % 8)) % 2 = 1)

\* C7: for every p with exactly 60 non-zero coefficients, each 1 or Q-1,
\* PackB60 followed by UnpackB60 returns true and yields exactly p, and the
\* k-th non-zero coefficient takes its sign from bit k of the sign field.
C7_B60RoundTrip ==
  [][(last = "PackB60" /\ B60InRange(p) /\ last' = "UnpackB60")
       => (ret' /\ p' = p /\ B60SignsByRank(p, buf))]_vars

\* a polynomial with both signs has made the round trip
C7_Witness ==
  /\ last = "UnpackB60" /\ prev = "PackB60" /\ ret
  /\ B60InRange(p)
  /\ \E j1, j2 \in 0..(N - 1) : p[j1] = 1 /\ p[j2] = Q - 1

----------------------------------------------------------------------------
(* internal/common/pack.go: 9-bit (T1) and 14-bit (T0) codecs *)

\* PackT1, lines 74-82: byte i of buf
PackT1Byte(pp, i) ==
  LET j == 8 * (i \div 9)
  IN CASE i % 9 = 0 -> Byte(pp[j])
       [] i % 9 = 1 -> BitOr(Byte(Shr(pp[j], 8)), Byte(Shl(pp[j + 1], 1)))
       [] i % 9 = 2 -> BitOr(Byte(Shr(pp[j + 1], 7)), Byte(Shl(pp[j + 2], 2)))
       [] i % 9 = 3 -> BitOr(Byte(Shr(pp[j + 2], 6)), Byte(Shl(pp[j + 3], 3)))
       [] i % 9 = 4 -> BitOr(Byte(Shr(pp[j + 3], 5)), Byte(Shl(pp[j + 4], 4)))
       [] i % 9 = 5 -> BitOr(Byte(Shr(pp[j + 4], 4)), Byte(Shl(pp[j + 5], 5)))
       [] i % 9 = 6 -> BitOr(Byte(Shr(pp[j + 5], 3)), Byte(Shl(pp[j + 6], 6)))
       [] i % 9 = 7 -> BitOr(Byte(Shr(pp[j + 6], 2)), Byte(Shl(pp[j + 7], 7)))
       [] i % 9 = 8 -> Byte(Shr(pp[j + 7], 1))

\* (p *Poly) PackT1(buf): the contents of buf after the call
Poly_PackT1(pp, b) ==
  [i \in DOMAIN b |-> IF i < PolyT1Size THEN PackT1Byte(pp, i) ELSE b[i]]

\* UnpackT1, lines 10-17: coefficient n of p
UnpackT1Coeff(b, n) ==
  LET i == 9 * (n \div 8)
  IN CASE n % 8 = 0 -> BitAnd(BitOr(b[i], Shl(b[i + 1], 8)), 511)
       [] n % 8 = 1 -> BitAnd(BitOr(Shr(b[i + 1], 1), Shl(b[i + 2], 7)), 511)
       [] n % 8 = 2 -> BitAnd(BitOr(Shr(b[i + 2], 2), Shl(b[i + 3], 6)), 511)
       [] n % 8 = 3 -> BitAnd(BitOr(Shr(b[i + 3], 3), Shl(b[i + 4], 5)), 511)
       [] n % 8 = 4 -> BitAnd(BitOr(Shr(b[i + 4], 4), Shl(b[i + 5], 4)), 511)
       [] n % 8 = 5 -> BitAnd(BitOr(Shr(b[i + 5], 5), Shl(b[i + 6], 3)), 511)
       [] n % 8 = 6 -> BitAnd(BitOr(Shr(b[i + 6], 6), Shl(b[i + 7], 2)), 511)
       [] n % 8 = 7 -> BitAnd(BitOr(Shr(b[i + 7], 7), Shl(b[i + 8], 1)), 511)

\* (p *Poly) UnpackT1(buf): the contents of p after the call
Poly_UnpackT1(pp, b) ==
  [n \in DOMAIN pp |-> UnpackT1Coeff(b, n)]

\* lines 30-33 without the 1 << (D - 1) offset
PackT0Diff_NoOffset(x) == Q - x

\* PackT0, lines 30-33: Q + (1 << (D - 1)) - p[j], a uint32 carried as its
\* int32 representative
PackT0Diff(x) == Q + Pow2(D - 1) - x

\* PackT0, lines 35-41: byte i of buf
PackT0Byte(pp, i) ==
  LET j == 4 * (i \div 7)
      p0 == PackT0Diff(pp[j])
      p1 == PackT0Diff(pp[j + 1])
      p2 == PackT0Diff(pp[j + 2])
      p3 == PackT0Diff(pp[j + 3])
  IN CASE i % 7 = 0 -> Byte(p0)
       [] i % 7 = 1 -> BitOr(Byte(Shr(p0, 8)), Byte(Shl(p1, 6)))
       [] i % 7 = 2 -> Byte(Shr(p1, 2))
       [] i % 7 = 3 -> BitOr(Byte(Shr(p1, 10)), Byte(Shl(p2, 4)))
       [] i % 7 = 4 -> Byte(Shr(p2, 4))
       [] i % 7 = 5 -> BitOr(Byte(Shr(p2, 12)), Byte(Shl(p3, 2)))
       [] i % 7 = 6 -> Byte(Shr(p3, 6))

\* (p *Poly) PackT0(buf): the contents of buf after the call
Poly_PackT0(pp, b) ==
  [i \in DOMAIN b |-> IF i < PolyT0Size THEN PackT0Byte(pp, i) ELSE b[i]]

\* UnpackT0, lines 53-62: coefficient n of p (0x3fff = 16383; the last field
\* is not masked)
UnpackT0Coeff(b, n) ==
  LET i == 7 * (n \div 4)
  IN CASE n % 4 = 0 ->
            Q + Pow2(D - 1) - BitAnd(BitOr(b[i], Shl(b[i + 1], 8)), 16383)
       [] n % 4 = 1 ->
            Q + Pow2(D - 1) - BitAnd(BitOr(BitOr(Shr(b[i + 1], 6), Shl(b[i + 2], 2)),
                                           Shl(b[i + 3], 10)), 16383)
       [] n % 4 = 2 ->
            Q + Pow2(D - 1) - BitAnd(BitOr(BitOr(Shr(b[i + 3], 4), Shl(b[i + 4], 4)),
                                           Shl(b[i + 5], 12)), 16383)
       [] n % 4 = 3 ->
            Q + Pow2(D - 1) - BitOr(Shr(b[i + 5], 2), Shl(b[i + 6], 6))

\* (p *Poly) UnpackT0(buf): the contents of p after the call
Poly_UnpackT0(pp, b) ==
  [n \in DOMAIN pp |-> UnpackT0Coeff(b, n)]

----------------------------------------------------------------------------
(* mode3/internal/pack.go: codec of polynomials of norm at most Eta *)

\* byte(common.Q + Eta - x)
LeqEtaDiff(x) == Byte(Q + Eta - x)

\* PolyPackLeqEta, lines 15-16 (DoubleEtaBits == 4) and lines 22-31
\* (DoubleEtaBits == 3): byte i of buf
PackLeqEtaByte(pp, i) ==
  IF DoubleEtaBits = 4
  THEN LET j == 2 * i
       IN BitOr(LeqEtaDiff(pp[j]), ShlByte(LeqEtaDiff(pp[j + 1]), 4))
  ELSE LET j == 8 * (i \div 3)
       IN CASE i % 3 = 0 ->
                 BitOr(BitOr(LeqEtaDiff(pp[j]), ShlByte(LeqEtaDiff(pp[j + 1]), 3)),
                       ShlByte(LeqEtaDiff(pp[j + 2]), 6))
            [] i % 3 = 1 ->
                 BitOr(BitOr(Shr(LeqEtaDiff(pp[j + 2]), 2), ShlByte(LeqEtaDiff(pp[j + 3]), 1)),
                       BitOr(ShlByte(LeqEtaDiff(pp[j + 4]), 4), ShlByte(LeqEtaDiff(pp[j + 5]), 7)))
            [] i % 3 = 2 ->
                 BitOr(BitOr(Shr(LeqEtaDiff(pp[j + 5]), 1), ShlByte(LeqEtaDiff(pp[j + 6]), 2)),
                       ShlByte(LeqEtaDiff(pp[j + 7]), 5))

\* PolyPackLeqEta(p, buf): the contents of buf after the call
PackLeqEta(pp, b) ==
  [i \in DOMAIN b |-> IF i < PolyLeqEtaSize THEN PackLeqEtaByte(pp, i) ELSE b[i]]

\* PolyUnpackLeqEta, lines 51-52 (DoubleEtaBits == 4) and lines 58-65
\* (DoubleEtaBits == 3): coefficient n of p
UnpackLeqEtaCoeff(b, n) ==
  IF DoubleEtaBits = 4
  THEN LET i == n \div 2
       IN IF n % 2 = 0
          THEN Q + Eta - BitAnd(b[i], 15)
          ELSE Q + Eta - Shr(b[i], 4)
  ELSE LET i == 3 * (n \div 8)
       IN CASE n % 8 = 0 -> Q + Eta - BitAnd(b[i], 7)
            [] n % 8 = 1 -> Q + Eta - BitAnd(Shr(b[i], 3), 7)
            [] n % 8 = 2 -> Q + Eta - BitOr(Shr(b[i], 6), BitAnd(ShlByte(b[i + 1], 2), 7))
            [] n % 8 = 3 -> Q + Eta - BitAnd(Shr(b[i + 1], 1), 7)
            [] n % 8 = 4 -> Q + Eta - BitAnd(Shr(b[i + 1], 4), 7)
            [] n % 8 = 5 -> Q + Eta - BitOr(Shr(b[i + 1], 7), BitAnd(ShlByte(b[i + 2], 1), 7))
            [] n % 8 = 6 -> Q + Eta - BitAnd(Shr(b[i + 2], 2), 7)
            [] n % 8 = 7 -> Q + Eta - BitAnd(Shr(b[i + 2], 5), 7)

\* PolyUnpackLeqEta(p, buf): the contents of p after the call
UnpackLeqEta(pp, b) ==
  [n \in DOMAIN pp |-> UnpackLeqEtaCoeff(b, n)]

----------------------------------------------------------------------------
(* mode3/internal/pack.go: 20-bit codec of polynomials of norm below Gamma1 *)

\* lines 150, 152, 194-209 left out
AddQIfNegative_NoAdd(x) == x

\* x += uint32(int32(x) >> 31) & Q: int32(x) >> 31 is all ones when the sign
\* bit of x is set and 0 otherwise
AddQIfNegative(x) == IF x < 0 THEN x + Q ELSE x

\* PolyPackLeGamma1, lines 149-158: byte i of buf
PackLeGamma1Byte(pp, i) ==
  LET j == 2 * (i \div 5)
      p0 == AddQIfNegative(Gamma1 - 1 - pp[j])
      p1 == AddQIfNegative(Gamma1 - 1 - pp[j + 1])
  IN CASE i % 5 = 0 -> Byte(p0)
       [] i % 5 = 1 -> Byte(Shr(p0, 8))
       [] i % 5 = 2 -> BitOr(Byte(Shr(p0, 16)), Byte(Shl(p1, 4)))
       [] i % 5 = 3 -> Byte(Shr(p1, 4))
       [] i % 5 = 4 -> Byte(Shr(p1, 12))

\* PolyPackLeGamma1(p, buf): the contents of buf after the call
PackLeGamma1(pp, b) ==
  [i \in DOMAIN b |-> IF i < PolyLeGamma1Size THEN PackLeGamma1Byte(pp, i) ELSE b[i]]

\* (a >> k) & 0xfffff for the uint64 a = binary.LittleEndian.Uint64(b[at:]):
\* byte m of a holds bits 8m .. 8m+7
U64Shr20(b, at, k) ==
  SumTo([m \in 0..7 |->
           IF 8 * m >= k
           THEN IF 8 * m - k < 20 THEN Shl(b[at + m], 8 * m - k) % Pow2(20) ELSE 0
           ELSE IF k - 8 * m < 8 THEN Shr(b[at + m], k - 8 * m) ELSE 0], 8)

\* a << k taken as 0: the bits of the next word are left out
U64Shl20_Dropped(b, at, k) == 0

\* (a << k) & 0xfffff for the uint64 a = binary.LittleEndian.Uint64(b[at:])
U64Shl20(b, at, k) ==
  SumTo([m \in 0..7 |->
           IF 8 * m + k < 20 THEN Shl(b[at + m], 8 * m + k) % Pow2(20) ELSE 0], 8)

\* PolyUnpackLeGamma1, lines 171-192: the 20-bit field of coefficient n, a0..a4
\* being the words at b[i], b[i+8], b[i+16], b[i+24], b[i+32]
UnpackLeGamma1Field(b, n) ==
  LET i == 40 * (n \div 16)
  IN CASE n % 16 = 0 -> U64Shr20(b, i, 0)
       [] n % 16 = 1 -> U64Shr20(b, i, 20)
       [] n % 16 = 2 -> U64Shr20(b, i, 40)
       [] n % 16 = 3 -> BitOr(U64Shr20(b, i, 60), U64Shl20(b, i + 8, 4))
       [] n % 16 = 4 -> U64Shr20(b, i + 8, 16)
       [] n % 16 = 5 -> U64Shr20(b, i + 8, 36)
       [] n % 16 = 6 -> BitOr(U64Shr20(b, i + 8, 56), U64Shl20(b, i + 16, 8))
       [] n % 16 = 7 -> U64Shr20(b, i + 16, 12)
       [] n % 16 = 8 -> U64Shr20(b, i + 16, 32)
       [] n % 16 = 9 -> BitOr(U64Shr20(b, i + 16, 52), U64Shl20(b, i + 24, 12))
       [] n % 16 = 10 -> U64Shr20(b, i + 24, 8)
       [] n % 16 = 11 -> U64Shr20(b, i + 24, 28)
       [] n % 16 = 12 -> BitOr(U64Shr20(b, i + 24, 48), U64Shl20(b, i + 32, 16))
       [] n % 16 = 13 -> U64Shr20(b, i + 32, 4)
       [] n % 16 = 14 -> U64Shr20(b, i + 32, 24)
       [] n % 16 = 15 -> U64Shr20(b, i + 32, 44)

\* lines 177-226: coefficient n of p
UnpackLeGamma1Coeff(b, n) == AddQIfNegative(Gamma1 - 1 - UnpackLeGamma1Field(b, n))

\* PolyUnpackLeGamma1(p, buf): the contents of p after the call
UnpackLeGamma1(pp, b) ==
  [n \in DOMAIN pp |-> UnpackLeGamma1Coeff(b, n)]

----------------------------------------------------------------------------
(* Calls of the fixed-width codecs *)

\* p.PackT1(b0), into the slice at hand or a fresh one whose bytes are 0xFF
PackT1 ==
  /\ BufLen(buf) = PolyT1Size
  /\ \E b0 \in {buf, DirtyBuf(PolyT1Size)} : buf' = Poly_PackT1(p, b0)
  /\ last' = "PackT1"
  /\ prev' = last
  /\ UNCHANGED <<p, v, ret>>
  /\ UNCHANGED nonCodecVars

\* p0.UnpackT1(buf), into the Poly at hand or one that holds other data
UnpackT1 ==
  /\ BufLen(buf) = PolyT1Size
  /\ \E p0 \in {p, DirtyPoly} : p' = Poly_UnpackT1(p0, buf)
  /\ last' = "UnpackT1"
  /\ prev' = last
  /\ UNCHANGED <<v, buf, ret>>
  /\ UNCHANGED nonCodecVars

PackT0 ==
  /\ BufLen(buf) = PolyT0Size
  /\ \E b0 \in {buf, DirtyBuf(PolyT0Size)} : buf' = Poly_PackT0(p, b0)
  /\ last' = "PackT0"
  /\ prev' = last
  /\ UNCHANGED <<p, v, ret>>
  /\ UNCHANGED nonCodecVars

UnpackT0 ==
  /\ BufLen(buf) = PolyT0Size
  /\ \E p0 \in {p, DirtyPoly} : p' = Poly_UnpackT0(p0, buf)
  /\ last' = "UnpackT0"
  /\ prev' = last
  /\ UNCHANGED <<v, buf, ret>>
  /\ UNCHANGED nonCodecVars

PolyPackLeqEta ==
  /\ BufLen(buf) = PolyLeqEtaSize
  /\ \E b0 \in {buf, DirtyBuf(PolyLeqEtaSize)} : buf' = PackLeqEta(p, b0)
  /\ last' = "PolyPackLeqEta"
  /\ prev' = last
  /\ UNCHANGED <<p, v, ret>>
  /\ UNCHANGED nonCodecVars

PolyUnpackLeqEta ==
  /\ BufLen(buf) = PolyLeqEtaSize
  /\ \E p0 \in {p, DirtyPoly} : p' = UnpackLeqEta(p0, buf)
  /\ last' = "PolyUnpackLeqEta"
  /\ prev' = last
  /\ UNCHANGED <<v, buf, ret>>
  /\ UNCHANGED nonCodecVars

PolyPackLeGamma1 ==
  /\ BufLen(buf) = PolyLeGamma1Size
  /\ \E b0 \in {buf, DirtyBuf(PolyLeGamma1Size)} : buf' = PackLeGamma1(p, b0)
  /\ last' = "PolyPackLeGamma1"
  /\ prev' = last
  /\ UNCHANGED <<p, v, ret>>
  /\ UNCHANGED nonCodecVars

PolyUnpackLeGamma1 ==
  /\ BufLen(buf) = PolyLeGamma1Size
  /\ \E p0 \in {p, DirtyPoly} : p' = UnpackLeGamma1(p0, buf)
  /\ last' = "PolyUnpackLeGamma1"
  /\ prev' = last
  /\ UNCHANGED <<v, buf, ret>>
  /\ UNCHANGED nonCodecVars

----------------------------------------------------------------------------
(* Inputs of the fixed-width codecs *)

\* period of the coefficient pattern of an input polynomial and of the byte
\* pattern of an input buffer
TileLen == 3

\* coefficients in the documented input range of each pack function: the two
\* ends of the range and values with alternating bits in the packed field
T1Vals == {0, 1, 341, 511}
T0Vals == {Q - Pow2(D - 1) + 1, Q - 2730, Q + 2731, Q + Pow2(D - 1)}
LeqEtaVals == {Q - Eta, Q, Q + 2, Q + Eta}
LeGamma1Vals == {0, Gamma1 - 1, Q - Gamma1 + 1, Q - 1}
BufByteVals == {0, 165, 255}

TilePoly(t) == [j \in 0..(N - 1) |-> t[j % TileLen]]
TileBuf(t, len) == [i \in 0..(len - 1) |-> t[i % TileLen]]

TilePolys(vals) == {TilePoly(t) : t \in [0..(TileLen - 1) -> vals]}
TileBufs(len) == {TileBuf(t, len) : t \in [0..(TileLen - 1) -> BufByteVals]}

FixedSizes == {PolyT1Size, PolyT0Size, PolyLeqEtaSize, PolyLeGamma1Size}

\* a polynomial to pack into a zeroed slice, or a slice of arbitrary bytes to
\* unpack
InitFixed ==
  /\ NonCodecInit
  /\ v = ZeroVecK
  /\ ret = FALSE
  /\ last = "init"
  /\ prev = "init"
  /\ \/ p \in TilePolys(T1Vals) /\ buf = ZeroBuf(PolyT1Size)
     \/ p \in TilePolys(T0Vals) /\ buf = ZeroBuf(PolyT0Size)
     \/ p \in TilePolys(LeqEtaVals) /\ buf = ZeroBuf(PolyLeqEtaSize)
     \/ p \in TilePolys(LeGamma1Vals) /\ buf = ZeroBuf(PolyLeGamma1Size)
     \/ p = ZeroPoly /\ \E len \in FixedSizes : buf \in TileBufs(len)

NextFixed ==
  \/ PackT1 \/ UnpackT1
  \/ PackT0 \/ UnpackT0
  \/ PolyPackLeqEta \/ PolyUnpackLeqEta
  \/ PolyPackLeGamma1 \/ PolyUnpackLeGamma1

SpecFixed == InitFixed /\ [][NextFixed]_vars

----------------------------------------------------------------------------
(* Properties of the fixed-width codecs *)

T1InRange(pp) == \A j \in 0..(N - 1) : 0 <= pp[j] /\ pp[j] < 512

T0InRange(pp) ==
  \A j \in 0..(N - 1) : Q - Pow2(D - 1) < pp[j] /\ pp[j] <= Q + Pow2(D - 1)

LeqEtaInRange(pp) == \A j \in 0..(N - 1) : Q - Eta <= pp[j] /\ pp[j] <= Q + Eta

LeGamma1InRange(pp) ==
  \A j \in 0..(N - 1) :
    \/ 0 <= pp[j] /\ pp[j] < Gamma1
    \/ Q - Gamma1 < pp[j] /\ pp[j] < Q

Normalized(pp) == \A j \in 0..(N - 1) : 0 <= pp[j] /\ pp[j] < Q

\* C8: UnpackT1 after PackT1 yields p for every p with coefficients in
\* [0,512); UnpackT0 after PackT0 yields p for every p with coefficients in
\* (Q-2^(D-1), Q+2^(D-1)]; PolyUnpackLeqEta after PolyPackLeqEta yields p for
\* every p with coefficients in [Q-Eta, Q+Eta].
C8_FixedWidthRoundTrip ==
  [][/\ (last = "PackT1" /\ T1InRange(p) /\ last' = "UnpackT1") => p' = p
     /\ (last = "PackT0" /\ T0InRange(p) /\ last' = "UnpackT0") => p' = p
     /\ (last = "PolyPackLeqEta" /\ LeqEtaInRange(p) /\ last' = "PolyUnpackLeqEta")
          => p' = p]_vars

\* a polynomial holding both ends of the T0 range has made the round trip
C8_Witness ==
  /\ last = "UnpackT0" /\ prev = "PackT0"
  /\ T0InRange(p)
  /\ \E j1, j2 \in 0..(N - 1) :
       p[j1] = Q + Pow2(D - 1) /\ p[j2] = Q - Pow2(D - 1) + 1

\* C9: for every normalized p whose coefficients all lie in [0, Gamma1) or
\* (Q-Gamma1, Q), PolyUnpackLeGamma1 applied to the output of
\* PolyPackLeGamma1 yields exactly p.
C9_LeGamma1RoundTrip ==
  [][(last = "PolyPackLeGamma1" /\ LeGamma1InRange(p) /\ last' = "PolyUnpackLeGamma1")
       => p' = p]_vars

\* a polynomial with coefficients in both halves of the range, next to one
\* another in every position of the 16-coefficient group, has made the round
\* trip
C9_Witness ==
  /\ last = "PolyUnpackLeGamma1" /\ prev = "PolyPackLeGamma1"
  /\ LeGamma1InRange(p)
  /\ p[0] = Q - 1 /\ p[1] = Gamma1 - 1 /\ p[2] = Q - Gamma1 + 1

\* C10: for every buffer of PolyT0Size bytes PackT0 after UnpackT0 reproduces
\* the buffer, for every buffer of PolyLeGamma1Size bytes PolyPackLeGamma1
\* after PolyUnpackLeGamma1 reproduces the buffer; the unpacked T0
\* coefficients lie in (Q-2^(D-1), Q+2^(D-1)] and the unpacked Gamma1
\* coefficients in [0,Q).
C10_EveryPatternRoundTrips ==
  [][/\ (last = "UnpackT0" /\ last' = "PackT0") => buf' = buf
     /\ (last = "PolyUnpackLeGamma1" /\ last' = "PolyPackLeGamma1") => buf' = buf
     /\ last' = "UnpackT0" => T0InRange(p')
     /\ last' = "PolyUnpackLeGamma1" => Normalized(p')]_vars

\* a buffer of arbitrary bytes whose 20-bit fields include one above
\* 2*(Gamma1-1), which no packed polynomial produces, has made the round trip
C10_Witness ==
  /\ last = "PolyPackLeGamma1" /\ prev = "PolyUnpackLeGamma1"
  /\ \E n \in 0..(N - 1) : UnpackLeGamma1Field(buf, n) > 2 * (Gamma1 - 1)
  /\ \E i1, i2 \in 0..(PolyLeGamma1Size - 1) : buf[i1] = 165 /\ buf[i2] = 255

----------------------------------------------------------------------------
(* internal/common/field.go: reductions modulo Q.  A uint32 x is carried as
   its int32 representative, so x >> 23 is (x \div 2^23) % 2^9 and
   x & 0x7fffff is x % 2^23 whichever the sign of the representative. *)

\* the reduction folding the top bits in with weight 2^12
reduceLe2Q_Weight12(xx) ==
  LET x1 == Shr(xx, 23) % Pow2(9)
      x2 == xx % Pow2(23)
  IN x2 + Shl(x1, 12) - x1

\* reduceLe2Q(x): with x = x1*2^23 + x2 and 2^23 = 2^13 - 1 (mod Q), the
\* approximate quotient x1 = x >> 23 is folded in as x2 + (x1 << 13) - x1
reduceLe2Q(xx) ==
  LET x1 == Shr(xx, 23) % Pow2(9)
      x2 == xx % Pow2(23)
  IN x2 + Shl(x1, 13) - x1

\* le2qModQ(x) for x < 2Q: x -= Q; x += uint32(int32(x) >> 31) & Q
le2qModQ(xx) == AddQIfNegative(xx - Q)

\* modQ(x)
modQ(xx) == le2qModQ(reduceLe2Q(xx))

\* y := modQ(x)
ModQ ==
  /\ DOMAIN arg = {"x"}
  /\ ret' = modQ(arg.x)
  /\ last' = "modQ"
  /\ prev' = last
  /\ UNCHANGED <<p, v, buf, arg>>
  /\ UNCHANGED <<samplerVars, oprfVars>>

\* y := reduceLe2Q(x)
ReduceLe2Q ==
  /\ DOMAIN arg = {"x"}
  /\ ret' = reduceLe2Q(arg.x)
  /\ last' = "reduceLe2Q"
  /\ prev' = last
  /\ UNCHANGED <<p, v, buf, arg>>
  /\ UNCHANGED <<samplerVars, oprfVars>>

----------------------------------------------------------------------------
(* internal/common/field.go and mode3/internal/rounding.go: rounding *)

Gamma2 == (Q - 1) \div 32
Alpha == 2 * Gamma2

\* power2round with a1 rounded down from a: a1 = a >> D
power2round_FloorA1(a) ==
  LET a0 == (a % Pow2(D)) - Pow2(D)
  IN [a0plusQ |-> Q + a0, a1 |-> Shr(a, D)]

\* power2round(a): a0 = a mod+- 2^D computed without a branch, a0plusQ = Q + a0
\* and a1 = (a - a0) >> D
power2round(a) ==
  LET t0 == (a % Pow2(D)) - (Pow2(D - 1) + 1)
      t1 == IF t0 < 0 THEN t0 + Pow2(D) ELSE t0
      a0 == t1 - (Pow2(D - 1) - 1)
  IN [a0plusQ |-> Q + a0, a1 |-> Shr(a - a0, D)]

\* a mod+- Alpha for a in [0,Q): with Alpha = 2^19 - 2^9 the sum of the low
\* 19 bits and 2^9 times the rest is congruent to a and below 1.5*Alpha
decomposeLow(a) ==
  LET t0 == (a % Pow2(19)) + Shl(Shr(a, 19), 9)
      t1 == t0 - (Alpha \div 2 + 1)
      t2 == IF t1 < 0 THEN t1 + Alpha ELSE t1
  IN t2 - (Alpha \div 2 - 1)

\* decompose without the special case at a1 = (Q-1)/Alpha
decompose_NoWrap(a) ==
  LET t == decomposeLow(a)
      d == a - t
      a1 == (Shr(d, 19) + 1) - (IF d = 0 THEN 1 ELSE 0)
  IN [a0plusQ |-> Q + t, a1 |-> a1]

\* decompose(a): a0 = a mod+- Alpha, a1 = (a - a0)/Alpha taken as
\* ((a - a0) >> 19) + 1 unless a - a0 = 0; when a1 = (Q-1)/Alpha = 16 then
\* a1 = 0 and a0 -= 1 (a0plusQ -= a1 >> 4; a1 &= 15)
decompose(a) ==
  LET t == decomposeLow(a)
      d == a - t
      a1 == (Shr(d, 19) + 1) - (IF d = 0 THEN 1 ELSE 0)
  IN [a0plusQ |-> Q + t - Shr(a1, 4), a1 |-> a1 % 16]

\* makeHint taking every z0 above Gamma2 as a crossing
makeHint_OneSided(z0, r1) == IF z0 <= Gamma2 THEN 0 ELSE 1

\* makeHint(z0, r1): 0 iff adding z0 to the low part leaves the high part r1
makeHint(z0, r1) ==
  IF z0 <= Gamma2 \/ z0 > Q - Gamma2 \/ (z0 = Q - Gamma2 /\ r1 = 0) THEN 0 ELSE 1

\* useHint(rp, hint): the high part of rp, moved one step towards the side
\* its low part lies on when the hint is set
useHint(rp, hint) ==
  LET r == decompose(rp)
  IN IF hint = 0 THEN r.a1
     ELSE IF r.a0plusQ > Q THEN (r.a1 + 1) % 16
     ELSE (r.a1 - 1) % 16

\* a0PlusQ, a1 := power2round(a)
Power2Round ==
  /\ DOMAIN arg = {"a"}
  /\ ret' = power2round(arg.a)
  /\ last' = "power2round"
  /\ prev' = last
  /\ UNCHANGED <<p, v, buf, arg>>
  /\ UNCHANGED <<samplerVars, oprfVars>>

\* a0PlusQ, a1 := decompose(a)
Decompose ==
  /\ DOMAIN arg = {"a"}
  /\ ret' = decompose(arg.a)
  /\ last' = "decompose"
  /\ prev' = last
  /\ UNCHANGED <<p, v, buf, arg>>
  /\ UNCHANGED <<samplerVars, oprfVars>>

\* w0, w1 := decompose(w); hint := makeHint(reduceLe2Q(w0+Q-f), w1)
MakeHint ==
  /\ DOMAIN arg = {"w", "f"}
  /\ LET w == decompose(arg.w)
     IN ret' = makeHint(reduceLe2Q(w.a0plusQ + Q - arg.f), w.a1)
  /\ last' = "makeHint"
  /\ prev' = last
  /\ UNCHANGED <<p, v, buf, arg>>
  /\ UNCHANGED <<samplerVars, oprfVars>>

\* w1p := useHint(reduceLe2Q(w+Q-f), hint), for the hint just made
UseHint ==
  /\ DOMAIN arg = {"w", "f"}
  /\ last = "makeHint"
  /\ ret' = useHint(reduceLe2Q(arg.w + Q - arg.f), ret)
  /\ last' = "useHint"
  /\ prev' = last
  /\ UNCHANGED <<p, v, buf, arg>>
  /\ UNCHANGED <<samplerVars, oprfVars>>

----------------------------------------------------------------------------
(* Inputs of the reductions and of rounding *)

\* 2^32 mod Q
Pow2_32ModQ == ((Pow2(24) % Q) * Pow2(8)) % Q

\* the value of the uint32 with int32 representative xx, modulo Q
U32ModQ(xx) == IF xx >= 0 THEN xx % Q ELSE ((xx % Q) + Pow2_32ModQ) % Q

\* int32 representatives of 32-bit values: next to the multiples of Q below
\* 2^31, next to the multiples of Q from 2^31 on (u - 2^32 for u = (512+k)*Q),
\* next to the multiples of 2^23, and the two ends of the int32 range
U32Inputs ==
  UNION { {k * Q + d, k * Pow2(23) + d} : k \in (0 - 255)..255, d \in (0 - 1)..1 }
    \cup { k * Q + d - Pow2_32ModQ : k \in (0 - 255)..0, d \in (0 - 1)..1 }
    \cup { Pow2(30) + (Pow2(30) - 1), 0 - Pow2(30) - Pow2(30) }

\* residues next to every multiple of 2^(D-1) and of Gamma2/2
AInputs ==
  { a \in UNION { {k * Pow2(D - 1) + d, k * (Gamma2 \div 2) + d} :
                   k \in 0..(Q \div Pow2(D - 1)), d \in (0 - 2)..2 } :
      0 <= a /\ a < Q }

\* residues w next to every multiple of Gamma2/2
WInputs ==
  { w \in { k * (Gamma2 \div 2) + d : k \in 0..(Q \div (Gamma2 \div 2)), d \in (0 - 2)..2 } :
      0 <= w /\ w < Q }

\* f with |f| <= Gamma2: fn or Q - fn for fn next to 0, Gamma2/2 and Gamma2
FInputs ==
  LET fns == { fn \in { k * (Gamma2 \div 2) + d : k \in 0..2, d \in (0 - 2)..2 } :
                 0 <= fn /\ fn <= Gamma2 }
  IN fns \cup { Q - fn : fn \in fns \ {0} }

InitField ==
  /\ p = ZeroPoly
  /\ v = ZeroVecK
  /\ buf = <<>>
  /\ ret = FALSE
  /\ last = "init"
  /\ prev = "init"
  /\ SamplerIdle
  /\ OprfIdle
  /\ arg \in [x : U32Inputs] \cup [a : AInputs] \cup [w : WInputs, f : FInputs]

NextField ==
  \/ ModQ \/ ReduceLe2Q
  \/ Power2Round \/ Decompose
  \/ MakeHint \/ UseHint

SpecField == InitField /\ [][NextField]_vars

\* C11: for every 32-bit x, modQ(x) is below Q and equals x mod Q, and
\* reduceLe2Q(x) is below 2Q and congruent to x modulo Q.
C11_ReductionCorrect ==
  /\ last = "modQ" => (0 <= ret /\ ret < Q /\ ret = U32ModQ(arg.x))
  /\ last = "reduceLe2Q" => (0 <= ret /\ ret < 2 * Q /\ ret % Q = U32ModQ(arg.x))

\* modQ has reduced the largest 32-bit value, 2^32 - 1
C11_Witness ==
  /\ last = "modQ" /\ prev = "reduceLe2Q"
  /\ arg.x = 0 - 1
  /\ ret = Pow2_32ModQ - 1

\* C12: for every a in [0,Q), power2round(a) = (a0+Q, a1) has a0 in
\* (-2^(D-1), 2^(D-1)], a1 <= (Q-1)/2^D and a0 + 2^D*a1 = a as integers.
C12_Power2RoundRecombines ==
  last = "power2round" =>
    LET a0 == ret.a0plusQ - Q
    IN /\ 0 - Pow2(D - 1) < a0 /\ a0 <= Pow2(D - 1)
       /\ 0 <= ret.a1 /\ ret.a1 <= (Q - 1) \div Pow2(D)
       /\ a0 + Pow2(D) * ret.a1 = arg.a

\* power2round has split Q - 1, whose low part is the upper end 2^(D-1)
C12_Witness ==
  /\ last = "power2round"
  /\ arg.a = Q - 1
  /\ ret.a0plusQ = Q + Pow2(D - 1)
  /\ ret.a1 = (Q - 1) \div Pow2(D)

\* the wrap-around case of decompose: a1 = 0 and a0 + Alpha*a1 negative
DecomposeWrapped(r) == r.a1 = 0 /\ r.a0plusQ - Q < 0

\* C13: for every a in [0,Q), decompose(a) = (a0+Q, a1) has a0 + Alpha*a1
\* congruent to a modulo Q and 0 <= a1 < (Q-1)/Alpha; a0 lies in
\* (-Alpha/2, Alpha/2], except in the wrap-around case (a1 = 0 and
\* a0 + Alpha*a1 negative), where a0 lies in [-Alpha/2, 0).
C13_DecomposeRecombines ==
  last = "decompose" =>
    LET a0 == ret.a0plusQ - Q
    IN /\ (a0 + Alpha * ret.a1) % Q = arg.a
       /\ 0 <= ret.a1 /\ ret.a1 < (Q - 1) \div Alpha
       /\ IF DecomposeWrapped(ret)
          THEN 0 - (Alpha \div 2) <= a0 /\ a0 < 0
          ELSE 0 - (Alpha \div 2) < a0 /\ a0 <= Alpha \div 2

\* decompose has split Q - Alpha/2, the lowest residue of the wrap-around
\* case: a1 = 0 and a0 = -Alpha/2
C13_Witness ==
  /\ last = "decompose"
  /\ arg.a = Q - Alpha \div 2
  /\ ret.a1 = 0
  /\ ret.a0plusQ = Q - Alpha \div 2

\* C14: for every w in [0,Q) and every f = fn or Q - fn with 0 <= fn <= Gamma2,
\* with (w0+Q, w1) = decompose(w),
\* useHint(reduceLe2Q(w+Q-f), makeHint(reduceLe2Q(w0+Q-f), w1)) = w1.
C14_HintRecoversHighBits ==
  last = "useHint" => ret = decompose(arg.w).a1

\* a hint that was set has been used: the high part of w - f differs from w1
C14_Witness ==
  /\ last = "useHint" /\ prev = "makeHint"
  /\ LET w == decompose(arg.w)
     IN /\ makeHint(reduceLe2Q(w.a0plusQ + Q - arg.f), w.a1) = 1
        /\ ret = w.a1

----------------------------------------------------------------------------
(* unnamed/part_000: Poly.DeriveUniform (rejection sampling of 12-bit chunks).
   The Poly of this package has int16 coefficients; its modulus is below 2^12,
   as the conversion uint16(Q) and the 12-bit chunks require. *)

SamplerQ == 3329

\* line 97, the size of buf: the rate of SHAKE-128
UniformBlockSize == 168

\* line 111: t1
UniformT1(b, j) == BitAnd(BitOr(b[j], Shl(b[j + 1], 8)), 4095)

\* line 112: t2
UniformT2(b, j) == BitAnd(BitOr(Shr(b[j + 1], 4), Shl(b[j + 2], 4)), 4095)

\* lines 114, 123 accepting the modulus itself
UniformAccept_Le(t) == t <= SamplerQ

\* lines 114, 123: t < uint16(Q)
UniformAccept(t) == t < SamplerQ

\* lines 115-120 and 124-129: p[i] = int16(t); i++; if i == N { break }.
\* st = [p, i, w, brk]: w[n] counts the writes to index n, w[N] those to an
\* index outside p; brk is set once the inner loop was left by break
UniformWrite(st, t) ==
  [p |-> IF st.i \in DOMAIN st.p THEN [st.p EXCEPT ![st.i] = t] ELSE st.p,
   i |-> st.i + 1,
   w |-> IF st.i < N THEN [st.w EXCEPT ![st.i] = @ + 1] ELSE [st.w EXCEPT ![N] = @ + 1],
   brk |-> (st.i + 1 = N)]

\* the inner loop body with t2 tested and written before t1
UniformStep_T2First(st, b, j) ==
  IF st.brk THEN st
  ELSE CHOOSE y \in
         { IF s1.brk THEN s1
           ELSE IF UniformAccept(UniformT1(b, j)) THEN UniformWrite(s1, UniformT1(b, j)) ELSE s1 :
           s1 \in { IF UniformAccept(UniformT2(b, j)) THEN UniformWrite(st, UniformT2(b, j)) ELSE st } } :
         TRUE

\* lines 111-130: one iteration of the inner loop, at offset j
UniformStep(st, b, j) ==
  IF st.brk THEN st
  ELSE \* s1, the state after t1, is bound once
       CHOOSE y \in
         { IF s1.brk THEN s1
           ELSE IF UniformAccept(UniformT2(b, j)) THEN UniformWrite(s1, UniformT2(b, j)) ELSE s1 :
           s1 \in { IF UniformAccept(UniformT1(b, j)) THEN UniformWrite(st, UniformT1(b, j)) ELSE st } } :
         TRUE

RECURSIVE UniformInner(_, _, _, _)
\* lines 110-131: the iterations j = 3*lo, ..., 3*(hi-1) of the inner loop, in
\* order
UniformInner(st, b, lo, hi) ==
  IF hi <= lo THEN st
  ELSE IF hi = lo + 1 THEN CHOOSE y \in {UniformStep(st, b, j) : j \in {3 * lo}} : TRUE
  ELSE LET mid == (lo + hi) \div 2
       IN \* r, the state after the first half, is bound once
          CHOOSE y \in {UniformInner(r, b, mid, hi) : r \in {UniformInner(st, b, lo, mid)}} : TRUE

\* the outer loop with at most n0 rounds
UniformLoopContinues_Capped(i0, n0) == i0 # N /\ n0 < 4

\* lines 107, 133-135: the outer loop goes on unless i == N, whatever the
\* number n0 of blocks read so far
UniformLoopContinues(i0, n0) == i0 # N

\* p.Tangle(): a fixed permutation of the coefficients
Tangle(pp, perm) == [n \in DOMAIN pp |-> pp[perm[n]]]

\* saturation of the count of blocks read
MaxSqueezes == 6

\* lines 107-136, one round of the outer loop: h.Read(buf[:]) delivers blk,
\* then the inner loop runs over it
SqueezeWith(blk) ==
  /\ last \in {"init", "DeriveUniform.Read"}
  /\ UniformLoopContinues(accepted, squeezed)
  /\ buf' = blk
  /\ \E r \in {UniformInner([p |-> p, i |-> accepted, w |-> writes, brk |-> FALSE],
                             blk, 0, UniformBlockSize \div 3)} :
        /\ p' = r.p
        /\ accepted' = r.i
        /\ writes' = r.w
  /\ squeezed' = IF squeezed < MaxSqueezes THEN squeezed + 1 ELSE squeezed
  /\ last' = "DeriveUniform.Read"
  /\ prev' = last
  /\ UNCHANGED <<v, ret>>
  /\ UNCHANGED <<fieldVars, oprfVars>>

\* the 12-bit chunks t1, t2 of the triples of a block, in order
UniformChunks == 0..(2 * (UniformBlockSize \div 3) - 1)

\* the block whose chunks are cv[0], cv[1], ...
BlockOf(cv) ==
  [j \in 0..(UniformBlockSize - 1) |->
     LET c1 == cv[2 * (j \div 3)]
         c2 == cv[2 * (j \div 3) + 1]
     IN CASE j % 3 = 0 -> c1 % 256
          [] j % 3 = 1 -> (c1 \div 256) + 16 * (c2 % 16)
          [] j % 3 = 2 -> c2 \div 16]

\* what the hash may deliver: a block of rejected chunks only (all bytes
\* 0xFF), a block of accepted chunks only, and a block that starts with a
\* rejected t1 (the modulus itself) before an accepted t2 (the modulus less
\* one) and has two rejected t2 after accepted t1
UniformBlocks ==
  { BlockOf([c \in UniformChunks |-> 4095]),
    BlockOf([c \in UniformChunks |-> c + 1]),
    BlockOf([c \in UniformChunks |->
               CASE c = 0 -> SamplerQ
                 [] c = 1 -> SamplerQ - 1
                 [] c \in {3, 5} -> 4095
                 [] OTHER -> c + 1]) }

BlockHasAccepted(blk) ==
  \E k \in 0..(UniformBlockSize \div 3 - 1) :
    UniformT1(blk, 3 * k) < SamplerQ \/ UniformT2(blk, 3 * k) < SamplerQ

DeriveUniformSqueeze == \E blk \in UniformBlocks : SqueezeWith(blk)

\* a round whose block holds a chunk below the modulus
DeriveUniformSqueezeAccepted ==
  \E blk \in {b \in UniformBlocks : BlockHasAccepted(b)} : SqueezeWith(blk)

\* orders the package may use for Tangle: none, or the reverse
TanglePerms == { [n \in 0..(N - 1) |-> n], [n \in 0..(N - 1) |-> N - 1 - n] }

\* line 138 and the return
DeriveUniformReturn ==
  /\ last = "DeriveUniform.Read"
  /\ ~UniformLoopContinues(accepted, squeezed)
  /\ \E perm \in TanglePerms : p' = Tangle(p, perm)
  /\ last' = "DeriveUniform"
  /\ prev' = last
  /\ UNCHANGED <<v, buf, ret, accepted, squeezed, writes>>
  /\ UNCHANGED <<fieldVars, oprfVars>>

\* p.DeriveUniform(seed, x, y) at the head of its loop, lines 95-106 done: the
\* seed and x, y are absorbed and only decide which blocks the hash delivers
InitUniform ==
  /\ p \in {ZeroPoly, DirtyPoly}
  /\ v = ZeroVecK
  /\ buf = ZeroBuf(UniformBlockSize)
  /\ ret = FALSE
  /\ last = "init"
  /\ prev = "init"
  /\ accepted = 0
  /\ squeezed = 0
  /\ writes = [n \in 0..N |-> 0]
  /\ FieldIdle
  /\ OprfIdle

NextUniform == DeriveUniformSqueeze \/ DeriveUniformReturn

SpecUniform == InitUniform /\ [][NextUniform]_vars

\* the call goes on, and the hash keeps delivering blocks with a chunk below
\* the modulus
SpecUniformLive ==
  /\ SpecUniform
  /\ WF_vars(DeriveUniformReturn)
  /\ WF_vars(DeriveUniformSqueezeAccepted)

\* C15: when DeriveUniform returns, exactly N coefficients have been written
\* (each index 0..N-1 once, none at an index >= N) and every coefficient is
\* below the modulus.
C15_UniformBound ==
  /\ writes # <<>> => writes[N] = 0
  /\ last = "DeriveUniform" =>
       /\ accepted = N
       /\ \A n \in 0..(N - 1) : writes[n] = 1
       /\ \A n \in 0..(N - 1) : 0 <= p[n] /\ p[n] < SamplerQ

\* DeriveUniform has returned, after blocks with rejected chunks, a polynomial
\* that holds the largest accepted value
C15_Witness ==
  /\ last = "DeriveUniform"
  /\ squeezed > 3
  /\ \E n \in 0..(N - 1) : p[n] = SamplerQ - 1

\* C16: the loop has no cap on its rounds: while fewer than N chunks are
\* accepted another block is squeezed, however many were read; it stops exactly
\* when the N-th chunk is accepted; with a hash that keeps delivering chunks
\* below the modulus it eventually returns.
C16_UniformTerminates ==
  /\ []((last \in {"init", "DeriveUniform.Read"} /\ accepted < N)
          => ENABLED DeriveUniformSqueeze)
  /\ [][/\ last' = "DeriveUniform" => (accepted = N /\ last = "DeriveUniform.Read")
        /\ accepted >= N => squeezed' = squeezed]_vars
  /\ <>(last = "DeriveUniform")

\* the loop is still running after MaxSqueezes blocks of rejected chunks only
C16_Witness ==
  /\ last = "DeriveUniform.Read"
  /\ squeezed = MaxSqueezes
  /\ accepted = 0

----------------------------------------------------------------------------
(* Properties of accepted and of arbitrary sparse encodings *)

\* C17: whenever UnpackHint returns true, the number of coefficients equal to
\* 1 across the K polynomials of v is the last switch-over byte
\* buf[Omega+K-1], hence at most Omega, and every other coefficient is 0.
C17_HintBudgetOnAccept ==
  (last = "UnpackHint" /\ ret) =>
    /\ \A i \in 0..(K - 1) : \A j \in 0..(N - 1) : v[i][j] \in {0, 1}
    /\ CountNonzero(v) = buf[Omega + K - 1]
    /\ CountNonzero(v) <= Omega

\* an accepted buffer that spends the whole budget over two polynomials
C17_Witness ==
  /\ last = "UnpackHint" /\ ret
  /\ buf[Omega + K - 1] = Omega
  /\ PolyCountNonzero(v[0]) = 1
  /\ CountNonzero(v) = Omega

----------------------------------------------------------------------------
(* The decoders with their index checks: Go panics on a slice or array index
   out of range, and the decoders have no recover. *)

Panic == "panic"

\* least element of a non-empty set of integers
MinOf(S) == CHOOSE x \in S : \A y \in S : x <= y

\* pack.go (mode3) lines 124-129 for polynomial i: iteration j reads buf[j]
\* (and buf[j-1], read in the iteration before), returns false at line 126, or
\* writes v[i][buf[j]] at line 128
HintIndexFault(vv, b, i, prevSOP, j) ==
  \/ j \notin DOMAIN b
  \/ /\ ~HintIndexOutOfOrder(b, prevSOP, j)
     /\ (i \notin DOMAIN vv \/ b[j] \notin DOMAIN vv[i])

HintIndexStop(b, prevSOP, j) ==
  j \in DOMAIN b /\ HintIndexOutOfOrder(b, prevSOP, j)

\* how the loop of lines 124-129 ends: the first iteration that faults or
\* returns decides
HintIndicesOutcome(vv, b, i, prevSOP, SOP) ==
  LET ev == {j \in prevSOP..(SOP - 1) :
               HintIndexFault(vv, b, i, prevSOP, j) \/ HintIndexStop(b, prevSOP, j)}
  IN IF ev = {} THEN "next"
     ELSE IF HintIndexFault(vv, b, i, prevSOP, MinOf(ev)) THEN Panic ELSE "false"

\* how the loop of lines 132-136 ends
HintPadOutcome(b, prevSOP) ==
  LET ev == {j \in prevSOP..(Omega - 1) : j \notin DOMAIN b \/ b[j] # 0}
  IN IF ev = {} THEN "true"
     ELSE IF MinOf(ev) \notin DOMAIN b THEN Panic ELSE "false"

RECURSIVE HintOutcome(_, _, _, _)
\* how UnpackHint ends from polynomial i on: "true", "false" or a panic
HintOutcome(vv, b, i, prevSOP) ==
  IF i >= K THEN HintPadOutcome(b, prevSOP)
  ELSE IF Omega + i \notin DOMAIN b THEN Panic
  ELSE IF HintBadSOP(b[Omega + i], prevSOP) THEN "false"
  ELSE CHOOSE y \in
         { IF o = "next" THEN HintOutcome(vv, b, i + 1, b[Omega + i]) ELSE o :
           o \in {HintIndicesOutcome(vv, b, i, prevSOP, b[Omega + i])} } : TRUE

\* ok := v0.UnpackHint(buf) as the runtime executes it
UnpackHintChecked ==
  /\ BufLen(buf) = Omega + K
  /\ \E v0 \in {v, DirtyVecK} :
       IF HintOutcome(v0, buf, 0, 0) = Panic
       THEN /\ last' = Panic
            /\ UNCHANGED <<v, ret>>
       ELSE \E r \in {VecK_UnpackHint(v0, buf)} :
              /\ v' = r.v
              /\ ret' = r.ret
              /\ last' = "UnpackHint"
  /\ prev' = last
  /\ UNCHANGED <<p, buf>>
  /\ UNCHANGED nonCodecVars

\* pack.go (common) lines 127-130 and 137: the bytes UnpackB60 reads
UnpackB60SignReads == 32..39
UnpackB60MaskReads == 0..31

\* how UnpackB60 ends: the sign bytes are read first, the mask bytes and the
\* writes p[8*i+j] of lines 138-140 only after the test of line 131
B60Outcome(pp, b) ==
  IF ~(UnpackB60SignReads \subseteq DOMAIN b) THEN Panic
  ELSE IF UnpackB60UnusedBits(b) THEN "false"
  ELSE IF ~(UnpackB60MaskReads \subseteq DOMAIN b) THEN Panic
  ELSE IF \E i \in UnpackB60MaskReads : \E j \in 0..7 :
            UnpackB60MaskBit(b, 8 * i + j) /\ 8 * i + j \notin DOMAIN pp
       THEN Panic
  ELSE "true"

\* ok := p0.UnpackB60(buf) as the runtime executes it
UnpackB60Checked ==
  /\ BufLen(buf) = PolyB60Size
  /\ \E p0 \in {p, DirtyPoly} :
       IF B60Outcome(p0, buf) = Panic
       THEN /\ last' = Panic
            /\ UNCHANGED <<p, ret>>
       ELSE \E r \in {Poly_UnpackB60(p0, buf)} :
              /\ p' = r.p
              /\ ret' = r.ret
              /\ last' = "UnpackB60"
  /\ prev' = last
  /\ UNCHANGED <<v, buf>>
  /\ UNCHANGED nonCodecVars

\* buffers with ascending index bytes 0, 1, ..., Omega-1 and switch-over
\* bytes above Omega: s, s+1, ... from polynomial k on, Omega before
HintWideSops == {Omega + 1, Omega + K + 1, 200, 251}

HintWideBufs ==
  { [j \in 0..(Omega + K - 1) |->
       IF j < Omega THEN j
       ELSE IF j - Omega < k THEN Omega
       ELSE s + (j - Omega - k)] :
    s \in HintWideSops, k \in 0..(K - 1) }

\* byte patterns that follow no encoding
NoiseBufs(len) ==
  { [j \in 0..(len - 1) |-> (a * j + c) % 256] : a \in {0, 1, 7, 255}, c \in {0, 1, 128, 255} }

InitDecode ==
  /\ NonCodecInit
  /\ p = ZeroPoly
  /\ v = ZeroVecK
  /\ ret = FALSE
  /\ last = "init"
  /\ prev = "init"
  /\ buf \in HintBufs \cup HintWideBufs \cup NoiseBufs(Omega + K)
             \cup B60Bufs \cup NoiseBufs(PolyB60Size)

NextDecode == UnpackHintChecked \/ UnpackB60Checked

SpecDecode == InitDecode /\ [][NextDecode]_vars

\* C18: for every buffer of length Omega+K UnpackHint, and for every 40-byte
\* buffer UnpackB60, ends by returning true or false: no read outside the
\* buffer and no write outside v[0..K-1][0..N-1] or p[0..N-1] occurs.
C18_DecodingNeverPanics ==
  /\ last # Panic
  /\ ret \in BOOLEAN
  /\ last = "UnpackHint" => (ret <=> (HintOutcome(ZeroVecK, buf, 0, 0) = "true"))
  /\ last = "UnpackB60" => (ret <=> (B60Outcome(ZeroPoly, buf) = "true"))

\* UnpackHint has returned false for a buffer whose indices ascend and whose
\* first switch-over byte points behind the buffer
C18_Witness ==
  /\ last = "UnpackHint" /\ ~ret
  /\ buf[Omega] > Omega + K
  /\ \A j \in 1..(Omega + K - 1) : buf[j] > buf[j - 1]

----------------------------------------------------------------------------
(* oprf/oprf.go (the package from line 240 on).  Byte strings are sequences.
   The package oprf/group is imported, not part of these sources: its
   operations are modelled as those of a cyclic group of prime order written
   additively over its generator, an element being its multiple of the
   generator and 0 the identity. *)

\* lines 273-277
OPRFP256 == 3
OPRFP384 == 4
OPRFP521 == 5
\* line 282
OPRFMode == 0

SuiteIDs == {OPRFP256, OPRFP384, OPRFP521}

\* the order of the group of a suite
GroupOrder(id) ==
  CASE id = OPRFP256 -> 3
    [] id = OPRFP384 -> 5
    [] OTHER -> 7

\* lines 328-332
generateContext(id) == <<OPRFMode, 0, id % 256>>

\* group.NewSuite, lines 374-384: the three suites hash with SHA-512
suiteFromID(id, ctx) ==
  [Curve |-> id, Hash |-> "sha512", order |-> GroupOrder(id), dst |-> ctx]

RECURSIVE SumBytes(_)
SumBytes(b) == IF b = <<>> THEN 0 ELSE Head(b) + SumBytes(Tail(b))

\* suite.RandomScalar(): a non-zero scalar
RandomScalar(suite) == 1..(suite.order - 1)

\* s.Inv()
Scalar_Inv(suite, x) ==
  IF x % suite.order = 0 THEN 0
  ELSE CHOOSE y \in 1..(suite.order - 1) : (x * y) % suite.order = 1

\* p.ScalarMult(s)
ScalarMult(suite, el, x) == (el * x) % suite.order

\* suite.Generator().ScalarBaseMult(s)
ScalarBaseMult(suite, x) == x % suite.order

\* suite.HashToGroup(in): an element other than the identity, fixed by the
\* input and the suite's domain separation
HashToGroup(suite, in) ==
  1 + ((SumBytes(in) + Len(in) + SumBytes(suite.dst)) % (suite.order - 1))

\* e.Serialize(): a tag byte and the element; the identity has an encoding of
\* its own, which Deserialize does not take
Element_Serialize(suite, el) == IF el = 0 THEN <<0>> ELSE <<4, el>>

\* e.Deserialize(b)
Element_Deserialize(suite, b) ==
  IF Len(b) = 2 /\ b[1] = 4 /\ b[2] \in 1..(suite.order - 1)
  THEN [err |-> FALSE, el |-> b[2]]
  ELSE [err |-> TRUE, el |-> 0]

\* s.Serialize(), s.Deserialize(b): big-endian, reduced on the way in
Scalar_Serialize(suite, x) == <<x>>

RECURSIVE BigEndian(_)
BigEndian(b) == IF b = <<>> THEN 0 ELSE 256 * BigEndian(SubSeq(b, 1, Len(b) - 1)) + b[Len(b)]

Scalar_Deserialize(suite, b) == BigEndian(b) % suite.order

\* a pointer to a scalar or an element
Ref(x) == [x |-> x]

\* binary.BigEndian.PutUint16(lenBuf, uint16(n))
PutUint16(n) == <<(n \div 256) % 256, n % 256>>

\* line 460: []byte("VOPRF05-Finalize-")
FinalizeDST == <<86, 79, 80, 82, 70, 48, 53, 45, 70, 105, 110, 97, 108, 105, 122, 101, 45>>

\* lines 438-468.  h.Sum(nil) is the digest of everything written; a digest is
\* modelled by the hash name and the bytes written, so that two digests are
\* equal exactly when the same bytes went into the same hash
finalizeHash(c, data, iToken, info, ctx) ==
  LET dst == FinalizeDST \o ctx
  IN [hash |-> c.Hash,
      written |-> PutUint16(Len(data)) \o data
                  \o PutUint16(Len(iToken)) \o iToken
                  \o PutUint16(Len(info)) \o info
                  \o PutUint16(Len(dst)) \o dst]

\* lines 357-362, with privK the scalar RandomScalar returned
GenerateKeyPair(suite, privK) ==
  [pubK |-> Ref(ScalarBaseMult(suite, privK)), PrivK |-> Ref(privK)]

\* lines 343-354: priv and pub are locals; kp is returned as it was passed
KeyPair_Deserialize(kp, suite, privK, pubK) ==
  LET priv == Scalar_Deserialize(suite, privK)
      pub == Element_Deserialize(suite, pubK)
  IN IF pub.err THEN [err |-> TRUE, kp |-> kp]
     ELSE [err |-> FALSE, kp |-> kp]

\* lines 364-372
assignKeyPair(suite, privK, pubK) ==
  LET r == KeyPair_Deserialize([pubK |-> Nil, PrivK |-> Nil], suite, privK, pubK)
  IN IF r.err THEN [err |-> TRUE, kp |-> Nil]
     ELSE [err |-> FALSE, kp |-> r.kp]

\* lines 424-435; ScalarMult dereferences the scalar it is given
Server_Evaluate(s, b) ==
  LET d == Element_Deserialize(s.suite, b)
  IN IF d.err THEN [err |-> TRUE, panic |-> FALSE, element |-> <<>>]
     ELSE IF s.Kp.PrivK = Nil THEN [err |-> FALSE, panic |-> TRUE, element |-> <<>>]
     ELSE [err |-> FALSE, panic |-> FALSE,
           element |-> Element_Serialize(s.suite, ScalarMult(s.suite, d.el, s.Kp.PrivK.x))]

\* lines 471-483
Server_FullEvaluate(s, in, info) ==
  IF s.Kp.PrivK = Nil THEN [panic |-> TRUE, h |-> Nil]
  ELSE LET t == ScalarMult(s.suite, HashToGroup(s.suite, in), s.Kp.PrivK.x)
           iToken == Element_Serialize(s.suite, t)
       IN [panic |-> FALSE, h |-> finalizeHash(s.suite, in, iToken, info, s.ctx)]

\* lines 486-501
Server_VerifyFinalize(s, in, info, o) ==
  LET el == Element_Serialize(s.suite, HashToGroup(s.suite, in))
      e == Server_Evaluate(s, el)
  IN IF e.panic THEN [panic |-> TRUE, ok |-> FALSE]
     ELSE IF e.err THEN [panic |-> FALSE, ok |-> FALSE]
     ELSE [panic |-> FALSE, ok |-> finalizeHash(s.suite, in, e.element, info, s.ctx) = o]

\* lines 526-539, with r the scalar RandomScalar returned
Client_Request(c, in, r) ==
  LET t == ScalarMult(c.suite, HashToGroup(c.suite, in), r)
  IN [suite |-> c.suite, ctx |-> c.ctx,
      token |-> [data |-> in, blind |-> r],
      bToken |-> Element_Serialize(c.suite, t)]

\* lines 550-553 without the inversion of the blind
Unblind_NoInv(suite, el, r) == ScalarMult(suite, el, r)

\* lines 550-553: tt = p * r^-1
Unblind(suite, el, r) == ScalarMult(suite, el, Scalar_Inv(suite, r))

\* lines 543-558
ClientRequest_Finalize(cr, e, info) ==
  LET d == Element_Deserialize(cr.suite, e.element)
  IN IF d.err THEN [err |-> TRUE, h |-> Nil, info |-> info]
     ELSE LET iToken == Element_Serialize(cr.suite, Unblind(cr.suite, d.el, cr.token.blind))
          IN [err |-> FALSE,
              h |-> finalizeHash(cr.suite, cr.token.data, iToken, info, cr.ctx),
              info |-> info]

----------------------------------------------------------------------------
(* Calls of the oprf package.  A panic ends the program. *)

OprfInputs == {<<>>, <<1, 2>>}
OprfInfos == {<<>>, <<9>>}

\* a token that is no encoding of an element
BadToken == <<4, 0>>

\* a digest that no call produced
BadDigest == [hash |-> "sha512", written |-> <<>>]

oprfFrame == <<p, v, buf, fieldVars, samplerVars>>

\* lines 387-400
NewServer ==
  /\ last # Panic
  /\ server = Nil
  /\ \E id \in SuiteIDs :
       LET ctx == generateContext(id)
           suite == suiteFromID(id, ctx)
       IN \E privK \in RandomScalar(suite) :
            server' = [suite |-> suite, ctx |-> ctx, Kp |-> GenerateKeyPair(suite, privK)]
  /\ last' = "NewServer"
  /\ prev' = last
  /\ UNCHANGED <<client, request, evaluation, out, call, ret>>
  /\ UNCHANGED oprfFrame

\* byte strings a caller may pass as keys of suite: serialized keys, and a
\* public key that is no encoding of an element
PrivKeyBytes(suite) == {Scalar_Serialize(suite, x) : x \in RandomScalar(suite)}
PubKeyBytes(suite) ==
  {Element_Serialize(suite, ScalarBaseMult(suite, x)) : x \in RandomScalar(suite)}
    \cup {BadToken}

\* lines 404-421
NewServerWithKeyPair ==
  /\ last # Panic
  /\ server = Nil
  /\ \E id \in SuiteIDs :
       LET ctx == generateContext(id)
           suite == suiteFromID(id, ctx)
       IN \E privK \in PrivKeyBytes(suite), pubK \in PubKeyBytes(suite) :
            \E r \in {assignKeyPair(suite, privK, pubK)} :
              /\ call' = [op |-> "NewServerWithKeyPair", id |-> id,
                          privK |-> privK, pubK |-> pubK, err |-> r.err]
              /\ server' = IF r.err THEN Nil
                           ELSE [suite |-> suite, ctx |-> ctx, Kp |-> r.kp]
  /\ last' = "NewServerWithKeyPair"
  /\ prev' = last
  /\ UNCHANGED <<client, request, evaluation, out, ret>>
  /\ UNCHANGED oprfFrame

\* lines 504-515
NewClient ==
  /\ last # Panic
  /\ client = Nil
  /\ \E id \in SuiteIDs :
       LET ctx == generateContext(id)
       IN client' = [suite |-> suiteFromID(id, ctx), ctx |-> ctx]
  /\ last' = "NewClient"
  /\ prev' = last
  /\ UNCHANGED <<server, request, evaluation, out, call, ret>>
  /\ UNCHANGED oprfFrame

\* cr := client.Request(in)
Request ==
  /\ last # Panic
  /\ client # Nil
  /\ request = Nil
  /\ \E in \in OprfInputs : \E r \in RandomScalar(client.suite) :
       request' = Client_Request(client, in, r)
  /\ last' = "Request"
  /\ prev' = last
  /\ UNCHANGED <<server, client, evaluation, out, call, ret>>
  /\ UNCHANGED oprfFrame

\* ev := server.Evaluate(b), for the blinded token of the request or for
\* bytes that encode no element; the evaluation is kept with the token it is of
Evaluate ==
  /\ last # Panic
  /\ server # Nil
  /\ request # Nil
  /\ evaluation = Nil
  /\ \E b \in {request.bToken, BadToken} :
       \E r \in {Server_Evaluate(server, b)} :
         IF r.panic
         THEN last' = Panic /\ UNCHANGED evaluation
         ELSE /\ evaluation' = [err |-> r.err, element |-> r.element, of |-> b]
              /\ last' = "Evaluate"
  /\ prev' = last
  /\ UNCHANGED <<server, client, request, out, call, ret>>
  /\ UNCHANGED oprfFrame

\* out := cr.Finalize(ev, info), for an evaluation returned without error
Finalize ==
  /\ last # Panic
  /\ request # Nil
  /\ evaluation # Nil
  /\ ~evaluation.err
  /\ out = Nil
  /\ \E info \in OprfInfos : out' = ClientRequest_Finalize(request, evaluation, info)
  /\ last' = "Finalize"
  /\ prev' = last
  /\ UNCHANGED <<server, client, request, evaluation, call, ret>>
  /\ UNCHANGED oprfFrame

\* h := server.FullEvaluate(in, info)
FullEvaluate ==
  /\ last # Panic
  /\ server # Nil
  /\ \E in \in OprfInputs, info \in OprfInfos :
       \E r \in {Server_FullEvaluate(server, in, info)} :
         IF r.panic
         THEN last' = Panic /\ UNCHANGED call
         ELSE /\ call' = [op |-> "FullEvaluate", in |-> in, info |-> info, h |-> r.h]
              /\ last' = "FullEvaluate"
  /\ prev' = last
  /\ UNCHANGED <<server, client, request, evaluation, out, ret>>
  /\ UNCHANGED oprfFrame

\* ok := server.VerifyFinalize(in, info, o), for the output of Finalize or for
\* another digest
VerifyFinalize ==
  /\ last # Panic
  /\ server # Nil
  /\ \E in \in OprfInputs, info \in OprfInfos :
       \E o \in {BadDigest} \cup (IF out = Nil THEN {} ELSE {out.h} \ {Nil}) :
         \E r \in {Server_VerifyFinalize(server, in, info, o)} :
           IF r.panic
           THEN last' = Panic /\ UNCHANGED <<call, ret>>
           ELSE /\ call' = [op |-> "VerifyFinalize", in |-> in, info |-> info, out |-> o]
                /\ ret' = r.ok
                /\ last' = "VerifyFinalize"
  /\ prev' = last
  /\ UNCHANGED <<server, client, request, evaluation, out>>
  /\ UNCHANGED oprfFrame

InitOprf ==
  /\ p = ZeroPoly
  /\ v = ZeroVecK
  /\ buf = <<>>
  /\ ret = FALSE
  /\ last = "init"
  /\ prev = "init"
  /\ NonCodecInit

NextOprf ==
  \/ NewServer
  \/ NewClient
  \/ Request
  \/ Evaluate
  \/ Finalize
  \/ FullEvaluate
  \/ VerifyFinalize

SpecOprf == InitOprf /\ [][NextOprf]_vars

\* the protocol with servers of either constructor
NextOprfKeys == NewServerWithKeyPair \/ NextOprf

SpecOprfKeys == InitOprf /\ [][NextOprfKeys]_vars

----------------------------------------------------------------------------
(* Properties of the oprf package *)

\* Finalize has run on the evaluation, by the server, of the blinded token of
\* the request of a client of the server's suite
OprfRunDone ==
  /\ server # Nil /\ request # Nil /\ evaluation # Nil /\ out # Nil
  /\ request.suite.Curve = server.suite.Curve
  /\ evaluation.of = request.bToken

\* C19: for a server made by NewServer and a client of the same suite, every
\* input, info and blind, Request, Evaluate, Finalize give the output
\* FullEvaluate gives for that input and info, and VerifyFinalize of that
\* input, info and output returns true.
C19_OprfCorrect ==
  OprfRunDone =>
    /\ ~out.err
    /\ out.h = Server_FullEvaluate(server, request.token.data, out.info).h
    /\ (last = "FullEvaluate" /\ call.in = request.token.data /\ call.info = out.info)
         => call.h = out.h
    /\ (/\ last = "VerifyFinalize"
        /\ call.in = request.token.data /\ call.info = out.info /\ call.out = out.h)
         => ret = TRUE

\* VerifyFinalize has accepted the output of a run whose blind and private key
\* are not 1
C19_Witness ==
  /\ OprfRunDone
  /\ last = "VerifyFinalize" /\ ret = TRUE
  /\ call.out = out.h
  /\ request.token.blind > 1
  /\ server.Kp.PrivK.x > 1
  /\ request.token.data # <<>>

\* C20: when NewServerWithKeyPair returns without error, the key pair of the
\* server holds the scalar deserialized from privK and the element
\* deserialized from pubK.
C20_ServerHoldsGivenKeys ==
  (last = "NewServerWithKeyPair" /\ ~call.err) =>
    /\ server.Kp.PrivK = Ref(Scalar_Deserialize(server.suite, call.privK))
    /\ server.Kp.pubK = Ref(Element_Deserialize(server.suite, call.pubK).el)

----------------------------------------------------------------------------
(* unnamed/part_000: Poly.DeriveNoise (centered binomial sampling).
   A uint64 is carried here as a tuple of four 16-bit limbs, least significant
   first, so that the masks, shifts and additions of the source are computed on the
   whole word, modulo 2^64. *)

LimbBits == 16

\* the uint64 written with sixteen hexadecimal digits, most significant first
W64Hex(digits) ==
  << 4096 * digits[13] + 256 * digits[14] + 16 * digits[15] + digits[16],
     4096 * digits[9] + 256 * digits[10] + 16 * digits[11] + digits[12],
     4096 * digits[5] + 256 * digits[6] + 16 * digits[7] + digits[8],
     4096 * digits[1] + 256 * digits[2] + 16 * digits[3] + digits[4] >>

\* binary.LittleEndian.Uint64(b[at:])
LittleEndianUint64(b, at) ==
  << b[at] + 256 * b[at + 1], b[at + 2] + 256 * b[at + 3],
     b[at + 4] + 256 * b[at + 5], b[at + 6] + 256 * b[at + 7] >>

\* x & y
W64And(x, y) ==
  <<BitAnd(x[1], y[1]), BitAnd(x[2], y[2]), BitAnd(x[3], y[3]), BitAnd(x[4], y[4])>>

\* the part of limb hi that x >> n moves into the limb below
ShrIn(hi, n) == (hi % Pow2(n)) * Pow2(LimbBits - n)

\* x >> n, for 0 < n < 16
W64Shr(x, n) ==
  << (x[1] \div Pow2(n)) + ShrIn(x[2], n), (x[2] \div Pow2(n)) + ShrIn(x[3], n),
     (x[3] \div Pow2(n)) + ShrIn(x[4], n), x[4] \div Pow2(n) >>

RECURSIVE W64Carry(_, _, _)
\* the carry out of limb l of x + y (into limb l + 1)
W64Carry(x, y, l) ==
  IF l = 0 THEN 0 ELSE (x[l] + y[l] + W64Carry(x, y, l - 1)) \div Pow2(LimbBits)

\* x + y on uint64: the carry out of the top limb is lost
W64Add(x, y) ==
  << (x[1] + y[1]) % Pow2(LimbBits),
     (x[2] + y[2] + W64Carry(x, y, 1)) % Pow2(LimbBits),
     (x[3] + y[3] + W64Carry(x, y, 2)) % Pow2(LimbBits),
     (x[4] + y[4] + W64Carry(x, y, 3)) % Pow2(LimbBits) >>

\* int16(d) & m, for a mask 0 <= m < 2^15
Int16And(d, m) == BitAnd(d[1], m)

\* line 45: 0x249249249249
Noise3Mask == W64Hex(<<0, 0, 0, 0, 2, 4, 9, 2, 4, 9, 2, 4, 9, 2, 4, 9>>)

\* lines 45-46 only: the third bit of every group is left out
Noise3Sum_TwoTerms(t) ==
  W64Add(W64And(t, Noise3Mask), W64And(W64Shr(t, 1), Noise3Mask))

\* lines 45-47: d
Noise3Sum(t) ==
  W64Add(W64Add(W64And(t, Noise3Mask), W64And(W64Shr(t, 1), Noise3Mask)),
         W64And(W64Shr(t, 2), Noise3Mask))

RECURSIVE Noise3Inner(_, _)
\* lines 49-55 from iteration j on: the values written to p[8*i+j], ...
Noise3Inner(d, j) ==
  IF j >= 8 THEN <<>>
  ELSE LET a == Int16And(d, 7)
           d1 == W64Shr(d, 3)
           b == Int16And(d1, 7)
           d2 == W64Shr(d1, 3)
       IN <<a - b>> \o Noise3Inner(d2, j + 1)

\* lines 38-39: buf after h.Read(buf[:192]) of a hash that delivers stream
Noise3Buf(stream) == [x \in 0..(192 + 2 - 1) |-> IF x < 192 THEN stream[x] ELSE 0]

\* lines 41-56: p after the loop over the 32 words
Poly_DeriveNoise3(pp, b) ==
  LET W == [i \in 0..31 |-> Noise3Inner(Noise3Sum(LittleEndianUint64(b, 6 * i)), 0)]
  IN [n \in DOMAIN pp |-> IF n < 8 * 32 THEN W[n \div 8][(n % 8) + 1] ELSE pp[n]]

\* line 79: 0x5555555555555555
Noise2Mask == W64Hex(<<5, 5, 5, 5, 5, 5, 5, 5, 5, 5, 5, 5, 5, 5, 5, 5>>)

\* lines 79-80: d
Noise2Sum(t) ==
  W64Add(W64And(t, Noise2Mask), W64And(W64Shr(t, 1), Noise2Mask))

RECURSIVE Noise2Inner(_, _)
\* lines 82-88 from iteration j on: the values written to p[16*i+j], ...
Noise2Inner(d, j) ==
  IF j >= 16 THEN <<>>
  ELSE LET a == Int16And(d, 3)
           d1 == W64Shr(d, 2)
           b == Int16And(d1, 3)
           d2 == W64Shr(d1, 2)
       IN <<a - b>> \o Noise2Inner(d2, j + 1)

\* lines 72-73: buf after h.Read(buf[:])
Noise2Buf(stream) == [x \in 0..(128 - 1) |-> stream[x]]

\* lines 75-89
Poly_DeriveNoise2(pp, b) ==
  LET W == [i \in 0..15 |-> Noise2Inner(Noise2Sum(LittleEndianUint64(b, 8 * i)), 0)]
  IN [n \in DOMAIN pp |-> IF n < 16 * 16 THEN W[n \div 16][(n % 16) + 1] ELSE pp[n]]

\* length of the hash output the model draws; the code reads a prefix of it
NoiseStreamLen == 200

NoiseTile == 3
NoiseTileBytes == {0, 27, 165, 255}

\* hash outputs: bytes of period NoiseTile, and bytes a*x + c
NoiseStreams ==
  { [x \in 0..(NoiseStreamLen - 1) |-> t[x % NoiseTile]] : t \in [0..(NoiseTile - 1) -> NoiseTileBytes] }
    \cup { [x \in 0..(NoiseStreamLen - 1) |-> (a * x + c) % 256] :
           a \in {1, 7, 13, 255}, c \in {0, 1, 128} }

\* the eta a caller may pass
NoiseEtas == {2, 3, 4}

\* p.DeriveNoise(seed, nonce, eta), lines 12-21, with stream the output of the
\* hash for seed and nonce; one call on a polynomial that is zero or holds
\* earlier data
DeriveNoise ==
  /\ last = "init"
  /\ \E eta \in NoiseEtas : \E stream \in NoiseStreams :
       CASE eta = 2 ->
              /\ buf' = Noise2Buf(stream)
              /\ p' = Poly_DeriveNoise2(p, Noise2Buf(stream))
              /\ last' = "DeriveNoise2"
         [] eta = 3 ->
              /\ buf' = Noise3Buf(stream)
              /\ p' = Poly_DeriveNoise3(p, Noise3Buf(stream))
              /\ last' = "DeriveNoise3"
         [] OTHER ->
              /\ last' = Panic
              /\ UNCHANGED <<p, buf>>
  /\ prev' = last
  /\ UNCHANGED <<v, ret>>
  /\ UNCHANGED nonCodecVars

InitNoise ==
  /\ NonCodecInit
  /\ p \in {ZeroPoly, DirtyPoly}
  /\ v = ZeroVecK
  /\ buf = <<>>
  /\ ret = FALSE
  /\ last = "init"
  /\ prev = "init"

NextNoise == DeriveNoise

SpecNoise == InitNoise /\ [][NextNoise]_vars

\* bit n of a byte stream, least significant bit of each byte first
StreamBit(b, n) == (b[n \div 8] \div Pow2(n % 8)) % 2

\* number of set bits among stream bits lo .. hi-1
StreamOnes(b, lo, hi) == Cardinality({n \in lo..(hi - 1) : StreamBit(b, n) = 1})

NoiseEta == IF last = "DeriveNoise2" THEN 2 ELSE 3

\* C21: for eta in {2,3}, coefficient k of DeriveNoise's output is a - b with
\* a the number of set bits among stream bits [2*eta*k, 2*eta*k + eta) and b
\* among [2*eta*k + eta, 2*eta*k + 2*eta); it lies in [-eta, eta]; only the
\* first N*2*eta/8 bytes of the stream are read.
C21_CenteredBinomial ==
  last \in {"DeriveNoise2", "DeriveNoise3"} =>
    /\ \A k \in 0..(N - 1) :
         /\ p[k] = StreamOnes(buf, 2 * NoiseEta * k, 2 * NoiseEta * k + NoiseEta)
                     - StreamOnes(buf, 2 * NoiseEta * k + NoiseEta, 2 * NoiseEta * k + 2 * NoiseEta)
         /\ -NoiseEta <= p[k] /\ p[k] <= NoiseEta
    /\ \A x \in DOMAIN buf : x >= (N * 2 * NoiseEta) \div 8 => buf[x] = 0

\* DeriveNoise3 has produced both extreme coefficients and a zero from a
\* stream whose bytes differ
C21_Witness ==
  /\ last = "DeriveNoise3"
  /\ \E k \in 0..(N - 1) : p[k] = 3
  /\ \E k \in 0..(N - 1) : p[k] = -3
  /\ \E k \in 0..(N - 1) : p[k] = 0
  /\ buf[191] # buf[190]

----------------------------------------------------------------------------
(* Order of the coefficients DeriveUniform writes *)

\* the c-th 12-bit chunk of a block: stream bits 12*c .. 12*c+11, least
\* significant first
StreamChunk(b, c) ==
  LET bit(t) == StreamBit(b, 12 * c + t)
  IN bit(0) + 2 * bit(1) + 4 * bit(2) + 8 * bit(3) + 16 * bit(4) + 32 * bit(5)
       + 64 * bit(6) + 128 * bit(7) + 256 * bit(8) + 512 * bit(9)
       + 1024 * bit(10) + 2048 * bit(11)

BelowSamplerQ(c) == c < SamplerQ

\* the chunks of a block that are below the modulus, in stream order
AcceptedChunks(b) ==
  SelectSeq([c \in 1..((8 * BufLen(b)) \div 12) |-> StreamChunk(b, c - 1)], BelowSamplerQ)

\* C22: before Tangle, coefficient i of DeriveUniform's output is the (i+1)-th
\* chunk below the modulus of the stream, in stream order over the blocks:
\* each round appends the accepted chunks of its block, in order, behind the
\* coefficients written so far and changes nothing else; chunks not below the
\* modulus take no position; no block is read and no chunk is used once N
\* chunks are accepted; the return only reorders.
C22_RejectionOrder ==
  [][/\ last' = "DeriveUniform.Read" =>
          \A acc \in {AcceptedChunks(buf')} :
            /\ accepted < N
            /\ accepted' = (IF accepted + Len(acc) < N THEN accepted + Len(acc) ELSE N)
            /\ \A n \in 0..(N - 1) :
                 p'[n] = IF accepted <= n /\ n < accepted' THEN acc[n - accepted + 1] ELSE p[n]
     /\ last' = "DeriveUniform" =>
          /\ accepted = N
          /\ \E perm \in TanglePerms : p' = [n \in 0..(N - 1) |-> p[perm[n]]]]_vars

\* the N-th coefficient has come from a block that begins with a rejected
\* chunk, behind coefficients of earlier blocks
C22_Witness ==
  /\ last = "DeriveUniform.Read"
  /\ accepted = N
  /\ squeezed > 3
  /\ StreamChunk(buf, 0) = SamplerQ
  /\ p[N - 1] = AcceptedChunks(buf)[N - 2 * (2 * (UniformBlockSize \div 3))]

----------------------------------------------------------------------------
(* PolyUnpackLeqEta on arbitrary buffers *)

\* the least b with Eta <= 2^b
EtaLog == CHOOSE b \in 0..DoubleEtaBits : Eta <= Pow2(b) /\ \A c \in 0..(b - 1) : Eta > Pow2(c)

\* C23: for an arbitrary buffer of PolyLeqEtaSize bytes every coefficient
\* PolyUnpackLeqEta produces lies in [Q - 2^b, Q + 2^b], b the least b with
\* Eta <= 2^b.
C23_UnpackLeqEtaWindow ==
  last = "PolyUnpackLeqEta" =>
    \A j \in 0..(N - 1) : Q - Pow2(EtaLog) <= p[j] /\ p[j] <= Q + Pow2(EtaLog)

----------------------------------------------------------------------------
(* Every codec on reused outputs *)

\* all the codecs of the two pack.go files on the shared p, v and buf: a run
\* starts from an input of one codec and calls that codec's Pack and Unpack
\* in any order, each call writing into what the earlier calls left or into
\* a dirty output
InitCodecs == InitSparse \/ InitFixed

NextCodecs == NextSparse \/ NextFixed

SpecCodecs == InitCodecs /\ [][NextCodecs]_vars

\* a Pack call leaves in buf what it writes into a zeroed buffer, and leaves
\* what it reads alone
PackFrame ==
  /\ last' = "PackT1" => buf' = Poly_PackT1(p, ZeroBuf(PolyT1Size)) /\ p' = p
  /\ last' = "PackT0" => buf' = Poly_PackT0(p, ZeroBuf(PolyT0Size)) /\ p' = p
  /\ last' = "PackB60" => buf' = Poly_PackB60(p, ZeroBuf(PolyB60Size)) /\ p' = p
  /\ last' = "PolyPackLeqEta" =>
       buf' = PackLeqEta(p, ZeroBuf(PolyLeqEtaSize)) /\ p' = p
  /\ last' = "PolyPackLeGamma1" =>
       buf' = PackLeGamma1(p, ZeroBuf(PolyLeGamma1Size)) /\ p' = p
  /\ last' = "PackHint" => buf' = VecK_PackHint(v, ZeroBuf(Omega + K)) /\ v' = v

\* an Unpack call leaves in its output what it writes into a zeroed one
UnpackFrame ==
  /\ last' = "UnpackT1" => p' = Poly_UnpackT1(ZeroPoly, buf)
  /\ last' = "UnpackT0" => p' = Poly_UnpackT0(ZeroPoly, buf)
  /\ last' = "PolyUnpackLeqEta" => p' = UnpackLeqEta(ZeroPoly, buf)
  /\ last' = "PolyUnpackLeGamma1" => p' = UnpackLeGamma1(ZeroPoly, buf)
  /\ last' = "UnpackB60" =>
       \E r \in {Poly_UnpackB60(ZeroPoly, buf)} : p' = r.p /\ ret' = r.ret
  /\ last' = "UnpackHint" =>
       \E r \in {VecK_UnpackHint(ZeroVecK, buf)} : v' = r.v /\ ret' = r.ret

\* C24: in any sequence of calls on a reused output, the bytes after PackT0,
\* PackT1, PackB60, PolyPackLeqEta, PolyPackLeGamma1 and (for at most Omega
\* non-zero coefficients) PackHint are the same whatever the buffer held
\* before, the coefficients after each Unpack are the same whatever the
\* output held before, and no Pack call modifies the polynomial or vector it
\* reads.
C24_OutputDependsOnlyOnInput == [][PackFrame /\ UnpackFrame]_vars

\* PackHint has written a hint vector with fewer than Omega ones over a
\* buffer that UnpackHint had just rejected, and the padding is zero
C24_Witness ==
  /\ last = "PackHint"
  /\ prev = "UnpackHint"
  /\ ret = FALSE
  /\ CountNonzero(v) < Omega
  /\ \A j \in CountNonzero(v)..(Omega - 1) : buf[j] = 0

====
